---------------------------- MODULE Spec2Model ----------------------------
(***************************************************************************)
(* A model of macaulay_library_lookup/parsers.py (class MacaulayParser).   *)
(*                                                                         *)
(* Text is a sequence of tokens: a digit is one token, a literal the       *)
(* regular expressions look for ("/asset/", "\"assetId\":", ...) is one    *)
(* token.  A parsed document is the sequence of its nodes in document     *)
(* order, which is the order find_all returns them in.                     *)
(***************************************************************************)
EXTENDS Integers, Sequences, FiniteSets, TLC

VARIABLES
    op,             \* the operation this behaviour calls
    soup,           \* its document argument
    search_params,  \* the search_params argument of parse_catalog_page
    catalog_id,     \* the catalog_id argument of parse_asset_page
    pc,             \* "call" before the call, "done" after it
    media_records,  \* the candidate list media_records, before deduplication
    outcome,        \* what the call returned, or that it raised
    previous,       \* the outcome of the call before this one
    ebird_api,      \* self.ebird_api of the MacaulayLookup instance
    args,           \* the arguments of a call of a MacaulayLookup method
    frame,          \* the locals of the loop of search_multiple_species
    log             \* what the call did so far: searches, requests, sleeps

\* the state of a MacaulayLookup call
core == <<ebird_api, args, frame, log>>

vars == <<op, soup, search_params, catalog_id, pc, media_records, outcome,
          previous, core>>

-----------------------------------------------------------------------------
(* Bounds of the model. *)

\* the number of top-level nodes of a catalog page
MaxNodes == 2

\* the length of a candidate list handed to the deduplication alone
MaxCandidates == 3

\* the number of elements with a property attribute on an asset page
MaxMetaElements == 2

\* the number of elements of a page handed to detect_pagination_info
MaxPageNodes == 2

\* the length of the species_list handed to search_multiple_species
MaxSpecies == 2

\* the number of rows of a taxonomy table handed to the lookups alone
MaxRows == 2

\* the number of tokens of a page text handed to the result-count patterns
MaxTextLen == 6

\* the number of calls made one after the other on one parser object
MaxCalls == 3

-----------------------------------------------------------------------------
(* Text and the regular expressions of the parser. *)

Digit == {"0", "1", "2", "3", "4", "5", "6", "7", "8", "9"}

\* the token that \s matches
Space == " "

Quote == "\""

\* the end of the maximal run of digits of s that starts at i (i - 1 when
\* s[i] is no digit): what a greedy \d+ consumes
DigitRunEnd(s, i) ==
    CHOOSE j \in (i - 1)..Len(s) :
        /\ \A k \in i..j : s[k] \in Digit
        /\ (j = Len(s) \/ s[j + 1] \notin Digit)

\* the end of the maximal run of whitespace of s that starts at i: \s*
SpaceRunEnd(s, i) ==
    CHOOSE j \in (i - 1)..Len(s) :
        /\ \A k \in i..j : s[k] = Space
        /\ (j = Len(s) \/ s[j + 1] # Space)

\* whether the literal lit stands in s at position i
LiteralAt(lit, s, i) ==
    /\ i >= 1
    /\ i + Len(lit) - 1 <= Len(s)
    /\ SubSeq(s, i, i + Len(lit) - 1) = lit

\* str.isdigit() of a non-empty token sequence
IsDigitStr(s) == Len(s) >= 1 /\ \A k \in 1..Len(s) : s[k] \in Digit

\* self.catalog_id_pattern = re.compile(r'/asset/(\d+)')
catalog_id_pattern == <<"/asset/">>

\* whether r'/asset/(\d+)' matches s at position i
CatalogIdMatchAt(s, i) ==
    /\ LiteralAt(catalog_id_pattern, s, i)
    /\ DigitRunEnd(s, i + 1) >= i + 1

\* self.catalog_id_pattern.search(s): whether there is a match
CatalogIdMatches(s) == \E i \in 1..Len(s) : CatalogIdMatchAt(s, i)

\* self.catalog_id_pattern.search(s).group(1): group 1 of the leftmost match
CatalogIdGroup(s) ==
    LET i == CHOOSE k \in 1..Len(s) :
                 /\ CatalogIdMatchAt(s, k)
                 /\ \A m \in 1..(k - 1) : ~CatalogIdMatchAt(s, m)
    IN  SubSeq(s, i + 1, DigitRunEnd(s, i + 1))

-----------------------------------------------------------------------------
(* Python values. *)

\* Optional[...]: None is the empty sequence, a value v is <<v>>
None == << >>

Some(v) == <<v>>

\* an empty dict
EmptyDict == [k \in {} |-> ""]

\* d.get(k, default)
Get(d, k, default) == IF k \in DOMAIN d THEN d[k] ELSE default

\* d.update(e), as a value
Update(d, e) ==
    [k \in DOMAIN d \cup DOMAIN e |-> IF k \in DOMAIN e THEN e[k] ELSE d[k]]

\* the outcome of a call: it returned a value, or an exception left it
Returned(v) == [status |-> "returned", value |-> v]

Raised == [status |-> "raised", value |-> None]

-----------------------------------------------------------------------------
(* The document handle: the nodes of a catalog page.                       *)
(*                                                                         *)
(* A node is an anchor, a script or a container (div, article, li).  A     *)
(* container holds its class, its attributes, the anchors below it, what   *)
(* the metadata heuristics find in it, and whether reading it raises.      *)

NoCues == [species |-> << >>, location |-> << >>, date |-> << >>,
           recordist |-> << >>]

Anchor(href) ==
    [tag |-> "a", href |-> href, string |-> << >>, class |-> << >>,
     attrs |-> EmptyDict, links |-> << >>, cues |-> NoCues, fault |-> FALSE]

Script(string) ==
    [tag |-> "script", href |-> << >>, string |-> string, class |-> << >>,
     attrs |-> EmptyDict, links |-> << >>, cues |-> NoCues, fault |-> FALSE]

Container(tag, class, attrs, links, cues, fault) ==
    [tag |-> tag, href |-> << >>, string |-> << >>, class |-> class,
     attrs |-> attrs, links |-> links, cues |-> cues, fault |-> fault]

\* the tags find_parent(['div', 'article', 'li']) stops at
ParentTags == {"div", "article", "li"}

\* the tags find_all(['div', 'article'], class_=...) looks at
ContainerTags == {"div", "article"}

\* re.compile(r'(media|asset|result)'), searched in a class: case-sensitive
ContainerClassMatches(class) ==
    \E i \in 1..Len(class) : class[i] \in {"media", "asset", "result"}

\* the anchors found by find_all('a', href=self.catalog_id_pattern) among
\* hrefs, each with the nearest div/article/li above it (find_parent), if any
RECURSIVE LinksOf(_, _)
LinksOf(hrefs, parent) ==
    IF hrefs = << >> THEN << >>
    ELSE (IF CatalogIdMatches(Head(hrefs))
          THEN <<[href |-> Head(hrefs), parent |-> parent]>> ELSE << >>)
         \o LinksOf(Tail(hrefs), parent)

\* soup.find_all('a', href=self.catalog_id_pattern), in document order
RECURSIVE AssetLinks(_)
AssetLinks(nodes) ==
    IF nodes = << >> THEN << >>
    ELSE LET n == Head(nodes)
         IN  (IF n.tag = "a" THEN LinksOf(<<n.href>>, None)
              ELSE IF n.tag \in ParentTags THEN LinksOf(n.links, Some(n))
              ELSE << >>)
             \o AssetLinks(Tail(nodes))

\* soup.find_all('script')
ScriptTags(nodes) == SelectSeq(nodes, LAMBDA n : n.tag = "script")

\* soup.find_all(['div', 'article'], class_=re.compile(r'(media|asset|result)'))
Containers(nodes) ==
    SelectSeq(nodes, LAMBDA n : n.tag \in ContainerTags
                                 /\ ContainerClassMatches(n.class))

-----------------------------------------------------------------------------
(* Records. *)

\* the five query-derived fields and the search parameter each is read from
QueryFields == {"media_type", "region", "search_month", "search_tag",
                "species_code"}

ParamOf(field) ==
    CASE field = "media_type" -> "mediaType"
      [] field = "region" -> "regionCode"
      [] field = "search_month" -> "beginMonth"
      [] field = "search_tag" -> "tag"
      [] field = "species_code" -> "taxonCode"

\* the keys the metadata heuristics may fill
MetadataFields == {"common_name", "location", "date", "recordist"}

\* f"https://macaulaylibrary.org/asset/{catalog_id}"
AssetUrl(id) == <<"https://", "macaulaylibrary.org", "/asset/">> \o id

BaseRecordRegionUnknown(id, params) ==
    [catalog_id |-> id,
     url |-> AssetUrl(id),
     media_type |-> Get(params, "mediaType", "unknown"),
     region |-> Get(params, "regionCode", "unknown"),
     search_month |-> Get(params, "beginMonth", ""),
     search_tag |-> Get(params, "tag", ""),
     species_code |-> Get(params, "taxonCode", ""),
     common_name |-> "",
     scientific_name |-> "",
     location |-> "",
     date |-> "",
     recordist |-> ""]

\* the record literal the three strategies build before any metadata
BaseRecord(id, params) ==
    [catalog_id |-> id,
     url |-> AssetUrl(id),
     media_type |-> Get(params, "mediaType", "unknown"),
     region |-> Get(params, "regionCode", ""),
     search_month |-> Get(params, "beginMonth", ""),
     search_tag |-> Get(params, "tag", ""),
     species_code |-> Get(params, "taxonCode", ""),
     common_name |-> "",
     scientific_name |-> "",
     location |-> "",
     date |-> "",
     recordist |-> ""]

\* one heuristic of the metadata helper: the key is written when the
\* heuristic finds something, with the first thing found
Cue(key, found) == IF found = << >> THEN EmptyDict ELSE (key :> Head(found))

MetadataAlsoRegion(container) ==
    IF container.fault THEN Raised
    ELSE Returned(Cue("common_name", container.cues.species)
                  @@ Cue("location", container.cues.location)
                  @@ Cue("region", container.cues.location)
                  @@ Cue("date", container.cues.date)
                  @@ Cue("recordist", container.cues.recordist))

\* _extract_metadata_from_container(container): the dict of what was found,
\* or the exception a read of the container raised
ExtractMetadataFromContainer(container) ==
    IF container.fault THEN Raised
    ELSE Returned(Cue("common_name", container.cues.species)
                  @@ Cue("location", container.cues.location)
                  @@ Cue("date", container.cues.date)
                  @@ Cue("recordist", container.cues.recordist))

\* an anchor without a div, article or li above it gives no record
ExtractRecordFromLinkNeedsParent(link, id, params) ==
    IF link.parent = None THEN None
    ELSE LET md == ExtractMetadataFromContainer(Head(link.parent))
         IN  IF md.status = "raised" THEN None
             ELSE Some(Update(BaseRecord(id, params), md.value))

\* _extract_record_from_link(link, catalog_id, search_params): everything is
\* inside try/except Exception, which returns None
ExtractRecordFromLink(link, id, params) ==
    IF link.parent = None THEN Some(BaseRecord(id, params))
    ELSE LET md == ExtractMetadataFromContainer(Head(link.parent))
         IN  IF md.status = "raised" THEN None
             ELSE Some(Update(BaseRecord(id, params), md.value))

\* Method 1 of parse_catalog_page: the records of the asset links
RECURSIVE LinkRecords(_, _)
LinkRecords(links, params) ==
    IF links = << >> THEN << >>
    ELSE LET link == Head(links)
             id == CatalogIdGroup(link.href)
         IN  ExtractRecordFromLink(link, id, params)
             \o LinkRecords(Tail(links), params)

-----------------------------------------------------------------------------
(* Method 2: identifiers in script text. *)

\* catalog_patterns.  A pattern is a literal and, for the three JSON keys,
\* the \s*"? that may stand between the literal and the digits.
catalog_patterns ==
    << [literal |-> <<"\"assetId\":">>, json |-> TRUE],
       [literal |-> <<"\"catalogId\":">>, json |-> TRUE],
       [literal |-> <<"\"id\":">>, json |-> TRUE],
       [literal |-> <<"/asset/">>, json |-> FALSE],
       [literal |-> <<"macaulaylibrary.org", "/asset/">>, json |-> FALSE] >>

\* where the group (\d+) of pattern p starts when p is tried at position i
GroupStart(p, s, i) ==
    LET after == i + Len(p.literal)
        spaces == IF p.json THEN SpaceRunEnd(s, after) + 1 ELSE after
    IN  IF p.json /\ spaces <= Len(s) /\ s[spaces] = Quote
        THEN spaces + 1 ELSE spaces

\* whether pattern p matches s at position i
PatternMatchAt(p, s, i) ==
    /\ LiteralAt(p.literal, s, i)
    /\ DigitRunEnd(s, GroupStart(p, s, i)) >= GroupStart(p, s, i)

\* re.findall(pattern, script_content): group 1 of every match from
\* position i on, left to right
RECURSIVE FindAllFrom(_, _, _)
FindAllFrom(p, s, i) ==
    IF i > Len(s) THEN << >>
    ELSE IF PatternMatchAt(p, s, i)
         THEN LET g == GroupStart(p, s, i)
                  e == DigitRunEnd(s, g)
              IN  <<SubSeq(s, g, e)>> \o FindAllFrom(p, s, e + 1)
         ELSE FindAllFrom(p, s, i + 1)

\* len(match) >= 6: "Reasonable catalog ID length"
MinCatalogIdLen == 6

\* the length of the match is not looked at
RECURSIVE MatchRecordsAnyLength(_, _)
MatchRecordsAnyLength(matches, params) ==
    IF matches = << >> THEN << >>
    ELSE LET match == Head(matches)
         IN  (IF IsDigitStr(match)
              THEN <<BaseRecord(match, params)>> ELSE << >>)
             \o MatchRecordsAnyLength(Tail(matches), params)

\* the records of the matches of one pattern
RECURSIVE MatchRecords(_, _)
MatchRecords(matches, params) ==
    IF matches = << >> THEN << >>
    ELSE LET match == Head(matches)
         IN  (IF IsDigitStr(match) /\ Len(match) >= MinCatalogIdLen
              THEN <<BaseRecord(match, params)>> ELSE << >>)
             \o MatchRecords(Tail(matches), params)

\* the loop over catalog_patterns, from pattern k on
RECURSIVE PatternRecords(_, _, _)
PatternRecords(k, script_content, params) ==
    IF k > Len(catalog_patterns) THEN << >>
    ELSE MatchRecords(FindAllFrom(catalog_patterns[k], script_content, 1), params)
         \o PatternRecords(k + 1, script_content, params)

\* _extract_records_from_script(script_content, search_params)
ExtractRecordsFromScript(script_content, params) ==
    PatternRecords(1, script_content, params)

\* Method 2 of parse_catalog_page: scripts without a string are skipped
RECURSIVE ScriptRecords(_, _)
ScriptRecords(scripts, params) ==
    IF scripts = << >> THEN << >>
    ELSE (IF Head(scripts).string # << >>
          THEN ExtractRecordsFromScript(Head(scripts).string, params)
          ELSE << >>)
         \o ScriptRecords(Tail(scripts), params)

-----------------------------------------------------------------------------
(* Method 3: containers. *)

\* container.get(name) is truthy: the attribute is there and is not ''
HasValue(container, name) ==
    name \in DOMAIN container.attrs /\ container.attrs[name] # << >>

\* the anchors inside the container are looked at before its attributes
ContainerCatalogIdLinksFirst(container) ==
    LET links == LinksOf(container.links, Some(container))
    IN  IF links # << >> THEN Some(CatalogIdGroup(links[1].href))
        ELSE IF HasValue(container, "data-asset-id")
        THEN Some(container.attrs["data-asset-id"])
        ELSE IF HasValue(container, "data-catalog-id")
        THEN Some(container.attrs["data-catalog-id"])
        ELSE None

\* the catalog id of a container, None when nothing gives one
ContainerCatalogId(container) ==
    IF HasValue(container, "data-asset-id")
    THEN Some(container.attrs["data-asset-id"])
    ELSE IF HasValue(container, "data-catalog-id")
    THEN Some(container.attrs["data-catalog-id"])
    ELSE LET links == LinksOf(container.links, Some(container))
         IN  IF links # << >> THEN Some(CatalogIdGroup(links[1].href))
             ELSE None

\* _extract_record_from_container(container, search_params): Optional
\* record, or the exception of the metadata helper, which nothing catches
ExtractRecordFromContainer(container, params) ==
    LET id == ContainerCatalogId(container)
    IN  IF id = None THEN Returned(None)
        ELSE LET md == ExtractMetadataFromContainer(container)
             IN  IF md.status = "raised" THEN Raised
                 ELSE Returned(Some(Update(BaseRecord(Head(id), params),
                                           md.value)))

\* Method 3 of parse_catalog_page: the records appended so far, and whether
\* a container raised (the loop ends there)
RECURSIVE ContainerRecords(_, _, _)
ContainerRecords(containers, params, acc) ==
    IF containers = << >> THEN Returned(acc)
    ELSE LET r == ExtractRecordFromContainer(Head(containers), params)
         IN  IF r.status = "raised" THEN [status |-> "raised", value |-> acc]
             ELSE ContainerRecords(Tail(containers), params, acc \o r.value)

-----------------------------------------------------------------------------
(* Removal of duplicates. *)

\* the loop over media_records with seen_ids and unique_records
RECURSIVE DedupeLoop(_, _, _)
DedupeLoop(records, seen_ids, unique_records) ==
    IF records = << >> THEN unique_records
    ELSE LET record == Head(records)
         IN  IF record.catalog_id \notin seen_ids
             THEN DedupeLoop(Tail(records),
                             seen_ids \cup {record.catalog_id},
                             Append(unique_records, record))
             ELSE DedupeLoop(Tail(records), seen_ids, unique_records)

\* seen_ids is never added to
RECURSIVE DedupeSeenNeverGrows(_)
DedupeSeenNeverGrows(records) ==
    IF records = << >> THEN << >>
    ELSE <<Head(records)>> \o DedupeSeenNeverGrows(Tail(records))

\* unique_records.insert(0, record) instead of append
RECURSIVE DedupeLoopInsertFront(_, _, _)
DedupeLoopInsertFront(records, seen_ids, unique_records) ==
    IF records = << >> THEN unique_records
    ELSE LET record == Head(records)
         IN  IF record.catalog_id \notin seen_ids
             THEN DedupeLoopInsertFront(Tail(records),
                                        seen_ids \cup {record.catalog_id},
                                        <<record>> \o unique_records)
             ELSE DedupeLoopInsertFront(Tail(records), seen_ids,
                                        unique_records)

DedupeInsertFront(records) == DedupeLoopInsertFront(records, {}, << >>)

\* a later duplicate replaces the record kept for its id
RECURSIVE DedupeLoopLastWins(_, _, _)
DedupeLoopLastWins(records, seen_ids, unique_records) ==
    IF records = << >> THEN unique_records
    ELSE LET record == Head(records)
         IN  IF record.catalog_id \notin seen_ids
             THEN DedupeLoopLastWins(Tail(records),
                                     seen_ids \cup {record.catalog_id},
                                     Append(unique_records, record))
             ELSE DedupeLoopLastWins(
                      Tail(records), seen_ids,
                      [i \in 1..Len(unique_records) |->
                          IF unique_records[i].catalog_id = record.catalog_id
                          THEN record ELSE unique_records[i]])

DedupeLastWins(records) == DedupeLoopLastWins(records, {}, << >>)

\* "if record not in unique_records": whole records compared, not their ids
RECURSIVE DedupeLoopWholeRecord(_, _)
DedupeLoopWholeRecord(records, unique_records) ==
    IF records = << >> THEN unique_records
    ELSE LET record == Head(records)
         IN  IF \A i \in 1..Len(unique_records) : unique_records[i] # record
             THEN DedupeLoopWholeRecord(Tail(records),
                                        Append(unique_records, record))
             ELSE DedupeLoopWholeRecord(Tail(records), unique_records)

DedupeWholeRecord(records) == DedupeLoopWholeRecord(records, << >>)

\* lines 60-66 of parse_catalog_page
Dedupe(records) == DedupeLoop(records, {}, << >>)

-----------------------------------------------------------------------------
(* parse_catalog_page. *)

\* Method 2 is run before Method 1
CandidatesScriptsFirst(nodes, params) ==
    ContainerRecords(Containers(nodes), params,
                     ScriptRecords(ScriptTags(nodes), params)
                     \o LinkRecords(AssetLinks(nodes), params))

\* the candidates of the three methods, in the order they are appended, and
\* whether Method 3 raised
Candidates(nodes, params) ==
    ContainerRecords(Containers(nodes), params,
                     LinkRecords(AssetLinks(nodes), params)
                     \o ScriptRecords(ScriptTags(nodes), params))

\* seen_ids is kept on the parser object: an id that an earlier call
\* returned is a duplicate in every later call
ParseCatalogPageOutcomeRemembers(nodes, params) ==
    LET c == Candidates(nodes, params)
        earlier == {log[i].result.value : i \in
                       {i \in 1..Len(log) :
                           /\ log[i].type = "parse_catalog_page"
                           /\ log[i].result.status = "returned"}}
        seen_ids == UNION {{r[k].catalog_id : k \in 1..Len(r)} : r \in earlier}
    IN  IF c.status = "raised" THEN Raised
        ELSE Returned(DedupeLoop(c.value, seen_ids, << >>))

\* parse_catalog_page(soup, search_params)
ParseCatalogPageOutcome(nodes, params) ==
    LET c == Candidates(nodes, params)
    IN  IF c.status = "raised" THEN Raised ELSE Returned(Dedupe(c.value))

-----------------------------------------------------------------------------
(* parse_asset_page.                                                       *)
(*                                                                         *)
(* An asset page holds the text of its first h1, of its first element of   *)
(* class species/title and of class scientific/latin (None when there is   *)
(* none), its elements with a property attribute, and the step of the      *)
(* extraction at which a read raises (0: none does).  The steps are: 1 the *)
(* species name, 2 the scientific name, 2 + i the i-th property element.   *)

\* str.lower() of a token
Lower(t) ==
    CASE t = "Location" -> "location"
      [] t = "DATE" -> "date"
      [] t = "Author" -> "author"
      [] t = "Pagination" -> "pagination"
      [] t = "Next" -> "next"
      [] t = "More" -> "more"
      [] t = "Showing" -> "showing"
      [] t = "Results" -> "results"
      [] t = "American" -> "american"
      [] t = "European" -> "european"
      [] t = "Robin" -> "robin"
      [] t = "ROBIN" -> "robin"
      [] t = "Blue" -> "blue"
      [] t = "Jay" -> "jay"
      [] t = "Turdus" -> "turdus"
      [] t = "Erithacus" -> "erithacus"
      [] t = "Cyanocitta" -> "cyanocitta"
      [] OTHER -> t

\* word in prop.lower()
InLowered(word, prop) == \E i \in 1..Len(prop) : Lower(prop[i]) = word

\* the record literal of parse_asset_page
AssetRecord(id) ==
    [catalog_id |-> id,
     url |-> AssetUrl(id),
     common_name |-> "",
     scientific_name |-> "",
     media_type |-> "",
     location |-> "",
     date |-> "",
     recordist |-> "",
     quality |-> "",
     tags |-> << >>,
     description |-> ""]

\* soup.find('h1') or soup.find(class_=re.compile(r'species|title'))
SpeciesElem(page) == IF page.h1 # None THEN page.h1 ELSE page.titled

\* elem.get('content', elem.get_text(strip=True))
ContentOrText(elem) ==
    IF elem.content # None THEN Head(elem.content) ELSE elem.text

\* one turn of the loop over meta_elements
MetaStep(record, elem) ==
    IF InLowered("location", elem.property)
    THEN [record EXCEPT !.location = ContentOrText(elem)]
    ELSE IF InLowered("date", elem.property)
    THEN [record EXCEPT !.date = ContentOrText(elem)]
    ELSE IF InLowered("creator", elem.property)
            \/ InLowered("author", elem.property)
    THEN [record EXCEPT !.recordist = ContentOrText(elem)]
    ELSE record

\* the local variable record after the first n steps of the extraction
RECURSIVE AssetRecordAfter(_, _, _)
AssetRecordAfter(page, id, n) ==
    IF n = 0 THEN AssetRecord(id)
    ELSE LET before == AssetRecordAfter(page, id, n - 1)
         IN  IF n = 1
             THEN IF SpeciesElem(page) # None
                  THEN [before EXCEPT !.common_name = Head(SpeciesElem(page))]
                  ELSE before
             ELSE IF n = 2
             THEN IF page.scientific # None
                  THEN [before EXCEPT
                           !.scientific_name = Head(page.scientific)]
                  ELSE before
             ELSE MetaStep(before, page.meta_elements[n - 2])

\* the number of steps of the extraction of a page
AssetSteps(page) == 2 + Len(page.meta_elements)

\* except Exception: the record as far as it was filled is returned
ParseAssetPagePartial(page, id) ==
    IF page.fault = 0
    THEN Returned(Some(AssetRecordAfter(page, id, AssetSteps(page))))
    ELSE Returned(Some(AssetRecordAfter(page, id, page.fault - 1)))

\* parse_asset_page(soup, catalog_id): the whole body is inside
\* try/except Exception, which returns None
ParseAssetPageOutcome(page, id) ==
    IF page.fault = 0
    THEN Returned(Some(AssetRecordAfter(page, id, AssetSteps(page))))
    ELSE Returned(None)

-----------------------------------------------------------------------------
(* detect_pagination_info.                                                 *)
(*                                                                         *)
(* A catalog page, for this operation, is the sequence of its elements in  *)
(* document order.  An element has its attributes, the text it holds       *)
(* itself and the a/button elements inside it.  A link has the value of    *)
(* .string (None when it has no single string child) and of get_text():    *)
(* the two differ for a link whose only child is a comment, which .string  *)
(* returns and get_text() leaves out.                                      *)

PageElement(attrs, text, links) ==
    [attrs |-> attrs, text |-> text, links |-> links]

PageLink(tag, string, text) == [tag |-> tag, string |-> string, text |-> text]

\* the token of s at position i, "" past either end
At(s, i) == IF i \in 1..Len(s) THEN s[i] ELSE ""

\* the position after the whitespace run that starts at i
SkipSpace(s, i) == IF i > Len(s) THEN i ELSE SpaceRunEnd(s, i) + 1

\* the number a string of digits denotes
RECURSIVE IntOf(_)
IntOf(digits) ==
    LET DigitValue(d) ==
            CASE d = "0" -> 0 [] d = "1" -> 1 [] d = "2" -> 2 [] d = "3" -> 3
              [] d = "4" -> 4 [] d = "5" -> 5 [] d = "6" -> 6 [] d = "7" -> 7
              [] d = "8" -> 8 [] d = "9" -> 9
    IN IF digits = << >> THEN 0
       ELSE 10 * IntOf(SubSeq(digits, 1, Len(digits) - 1))
            + DigitValue(digits[Len(digits)])

\* str.strip()
RECURSIVE Strip(_)
Strip(s) ==
    IF s = << >> THEN s
    ELSE IF Head(s) = Space THEN Strip(Tail(s))
    ELSE IF s[Len(s)] = Space THEN Strip(SubSeq(s, 1, Len(s) - 1))
    ELSE s

\* int(s): the number when s, stripped, is a string of digits; ValueError
\* otherwise (the empty string included)
IntOfStr(s) ==
    IF IsDigitStr(Strip(s)) THEN Returned(IntOf(Strip(s))) ELSE Raised

\* the list pagination_patterns: the attribute searched, the word looked
\* for, and whether it is a case-insensitive regular expression (a plain
\* string must equal the whole attribute value)
pagination_patterns ==
    << [attr |-> "class", word |-> "pagination", regex |-> TRUE],
       [attr |-> "class", word |-> "pager", regex |-> TRUE],
       [attr |-> "class", word |-> "page-nav", regex |-> TRUE],
       [attr |-> "role", word |-> "navigation", regex |-> FALSE],
       [attr |-> "aria-label", word |-> "pagination", regex |-> TRUE] >>

\* any element with the attribute matches, whatever the value
AttrMatchesAnyValue(p, elem) == p.attr \in DOMAIN elem.attrs

\* whether an element has the attribute of pattern p with a matching value
AttrMatches(p, elem) ==
    /\ p.attr \in DOMAIN elem.attrs
    /\ IF p.regex
       THEN InLowered(p.word, elem.attrs[p.attr])
       ELSE elem.attrs[p.attr] = <<p.word>>

\* soup.find(attrs=pattern): the first matching element, or None
Find(p, nodes) ==
    LET found == SelectSeq(nodes, LAMBDA e : AttrMatches(p, e))
    IN  IF found = << >> THEN None ELSE Some(Head(found))

\* the loop over pagination_patterns does not break: the last pattern that
\* finds an element decides
LastPattern(nodes) ==
    IF \E k \in 1..Len(pagination_patterns) :
           Find(pagination_patterns[k], nodes) # None
    THEN CHOOSE k \in 1..Len(pagination_patterns) :
             /\ Find(pagination_patterns[k], nodes) # None
             /\ \A j \in (k + 1)..Len(pagination_patterns) :
                    Find(pagination_patterns[j], nodes) = None
    ELSE 0

\* the index of the first pattern that finds an element, 0 when none does:
\* where the loop over pagination_patterns breaks
FirstPattern(nodes) ==
    IF \E k \in 1..Len(pagination_patterns) :
           Find(pagination_patterns[k], nodes) # None
    THEN CHOOSE k \in 1..Len(pagination_patterns) :
             /\ Find(pagination_patterns[k], nodes) # None
             /\ \A j \in 1..(k - 1) : Find(pagination_patterns[j], nodes) = None
    ELSE 0

NextWords == {"next", "more", ">"}

\* pagination_elem.find_all(['a', 'button'],
\*                          string=re.compile(r'next|more|\>', re.I))
NextIndicators(elem) ==
    SelectSeq(elem.links,
              LAMBDA l : /\ l.tag \in {"a", "button"}
                         /\ l.string # None
                         /\ \E w \in NextWords : InLowered(w, Head(l.string)))

\* pagination_elem.find_all('a', string=re.compile(r'^\d+$'))
PageLinks(elem) ==
    SelectSeq(elem.links,
              LAMBDA l : /\ l.tag = "a"
                         /\ l.string # None
                         /\ IsDigitStr(Head(l.string)))

\* max(page_numbers)
MaxOf(numbers) ==
    CHOOSE m \in {numbers[i] : i \in 1..Len(numbers)} :
        \A i \in 1..Len(numbers) : numbers[i] <= m

\* whether a token is the word of, in any case
IsOf(t) == Lower(t) = "of"

\* whether results? matches at a token, in any case
IsResult(t) == Lower(t) \in {"result", "results"}

\* \s*(?:of\s*(\d+))?\s*results? from position i on: None when it does not
\* match, else group 2 (<< >> when the optional part took no part)
CountTail(s, i) ==
    LET a == SkipSpace(s, i)
        b == SkipSpace(s, a + 1)
        e == DigitRunEnd(s, b)
    IN  IF IsOf(At(s, a))
        THEN IF At(s, b) \in Digit /\ IsResult(At(s, SkipSpace(s, e + 1)))
             THEN Some(SubSeq(s, b, e))
             ELSE None
        ELSE IF IsResult(At(s, a)) THEN Some(<< >>)
        ELSE None

\* r'(\d+)\s*(?:of\s*(\d+))?\s*results?' matched at position i: None, or
\* match.groups()
CountAt(s, i) ==
    LET e == DigitRunEnd(s, i)
    IN  IF At(s, i) \in Digit /\ CountTail(s, e + 1) # None
        THEN Some(<<SubSeq(s, i, e), Head(CountTail(s, e + 1))>>)
        ELSE None

\* r'showing\s*(\d+)\s*(?:of\s*(\d+))?\s*results?' matched at position i
ShowingAt(s, i) ==
    IF Lower(At(s, i)) = "showing"
    THEN CountAt(s, SkipSpace(s, i + 1))
    ELSE None

\* r'(\d+)\s*-\s*(\d+)\s*of\s*(\d+)\s*results?' matched at position i
RangeAt(s, i) ==
    LET e1 == DigitRunEnd(s, i)
        a  == SkipSpace(s, e1 + 1)
        b  == SkipSpace(s, a + 1)
        e2 == DigitRunEnd(s, b)
        c  == SkipSpace(s, e2 + 1)
        d  == SkipSpace(s, c + 1)
        e3 == DigitRunEnd(s, d)
    IN  IF /\ At(s, i) \in Digit
           /\ At(s, a) = "-"
           /\ At(s, b) \in Digit
           /\ IsOf(At(s, c))
           /\ At(s, d) \in Digit
           /\ IsResult(At(s, SkipSpace(s, e3 + 1)))
        THEN Some(<<SubSeq(s, i, e1), SubSeq(s, b, e2), SubSeq(s, d, e3)>>)
        ELSE None

\* the first pattern matches at the start of the text only
ResultCountAtAnchored(k, s, i) ==
    CASE k = 1 -> IF i = 1 THEN CountAt(s, i) ELSE None
      [] k = 2 -> ShowingAt(s, i)
      [] k = 3 -> RangeAt(s, i)

\* the list result_count_patterns, each matched at a position
ResultCountAt(k, s, i) ==
    CASE k = 1 -> CountAt(s, i)
      [] k = 2 -> ShowingAt(s, i)
      [] k = 3 -> RangeAt(s, i)

NumResultCountPatterns == 3

\* re.search(result_count_patterns[k], page_text, re.I): None, or the
\* groups of the leftmost match
Search(k, s) ==
    IF \E i \in 1..Len(s) : ResultCountAt(k, s, i) # None
    THEN LET i == CHOOSE m \in 1..Len(s) :
                      /\ ResultCountAt(k, s, m) # None
                      /\ \A j \in 1..(m - 1) : ResultCountAt(k, s, j) = None
         IN  ResultCountAt(k, s, i)
    ELSE None

\* total_results is taken from the first group
RECURSIVE TotalResultsFirstGroup(_, _)
TotalResultsFirstGroup(k, page_text) ==
    IF k > NumResultCountPatterns THEN None
    ELSE LET match == Search(k, page_text)
         IN  IF match # None
             THEN LET groups == Head(match)
                  IN  IF Len(groups) >= 2 /\ groups[2] # << >>
                      THEN Some(IntOf(groups[1]))
                      ELSE None
             ELSE TotalResultsFirstGroup(k + 1, page_text)

\* a match without a total does not end the loop: the next pattern is tried
RECURSIVE TotalResultsFallsThrough(_, _)
TotalResultsFallsThrough(k, page_text) ==
    IF k > NumResultCountPatterns THEN None
    ELSE LET match == Search(k, page_text)
         IN  IF match # None /\ Len(Head(match)) >= 2
                /\ Head(match)[2] # << >>
             THEN Some(IntOf(Head(match)[2]))
             ELSE TotalResultsFallsThrough(k + 1, page_text)

\* the loop over result_count_patterns from pattern k on: total_results
\* after it.  The first pattern that matches ends the loop.
RECURSIVE TotalResultsFrom(_, _)
TotalResultsFrom(k, page_text) ==
    IF k > NumResultCountPatterns THEN None
    ELSE LET match == Search(k, page_text)
         IN  IF match # None
             THEN LET groups == Head(match)
                  IN  IF Len(groups) >= 2 /\ groups[2] # << >>
                      THEN Some(IntOf(groups[2]))
                      ELSE None
             ELSE TotalResultsFrom(k + 1, page_text)

\* get_text() of one element: its own text, then the text of its links
RECURSIVE LinksText(_)
LinksText(links) ==
    IF links = << >> THEN << >>
    ELSE Head(links).text \o LinksText(Tail(links))

\* soup.get_text()
RECURSIVE GetText(_)
GetText(nodes) ==
    IF nodes = << >> THEN << >>
    ELSE Head(nodes).text \o LinksText(Head(nodes).links)
         \o GetText(Tail(nodes))

\* the dict pagination_info as first assigned
DefaultPaginationInfo ==
    [has_next_page |-> FALSE, total_results |-> None, current_page |-> None,
     total_pages |-> None, results_per_page |-> None]

\* [int(link.get_text()) for link in page_links]
PageNumbers(page_links) ==
    [i \in 1..Len(page_links) |-> IntOfStr(page_links[i].text)]

\* detect_pagination_info(soup): no statement of it is inside a try
DetectPaginationInfoOutcome(nodes) ==
    LET k == FirstPattern(nodes)
        elem == Head(Find(pagination_patterns[k], nodes))
        numbers == PageNumbers(PageLinks(elem))
        raises == /\ k # 0
                  /\ \E i \in 1..Len(numbers) : numbers[i].status = "raised"
        info == DefaultPaginationInfo
    IN  IF raises THEN Raised
        ELSE Returned(
            [info EXCEPT
               !.has_next_page = k # 0 /\ NextIndicators(elem) # << >>,
               !.total_pages =
                   IF k # 0 /\ numbers # << >>
                   THEN Some(MaxOf([i \in 1..Len(numbers) |->
                                       numbers[i].value]))
                   ELSE None,
               !.total_results = TotalResultsFrom(1, GetText(nodes))])

-----------------------------------------------------------------------------
(* The catalog pages and search parameters the model draws from. *)

IdA == <<"1", "2", "3", "4", "5", "6">>

IdB == <<"4", "2", "4", "2", "4", "2">>

IdShort == <<"4", "2">>

IdWord == <<"a", "b", "c">>

NodeUniverse ==
    LET HrefA == <<"/asset/">> \o IdA
        HrefB == <<"https://", "macaulaylibrary.org", "/asset/">> \o IdB
        HrefShort == <<"/asset/">> \o IdShort \o <<"?", "7">>
        HrefNone == <<"/about">>
        CuesFull == [species |-> <<"Northern cardinal", "Blue jay">>,
                     location |-> <<"Ithaca">>, date |-> <<"2020-05-01">>,
                     recordist |-> <<"Jane Doe">>]
        CuesSome == [species |-> <<"Blue jay">>, location |-> << >>,
                     date |-> << >>, recordist |-> << >>]
    IN
    << Anchor(HrefA),
       Anchor(HrefShort),
       Anchor(HrefNone),
       Script(<< >>),
       Script(<<"\"assetId\":", Space, Quote>> \o IdA \o <<Quote>>),
       Script(<<"\"id\":", Space, Quote>> \o IdShort \o <<Quote>>),
       Script(<<"\"id\":">> \o IdB),
       Script(<<"https://", "macaulaylibrary.org", "/asset/">> \o IdA),
       Script(<<"\"catalogId\":", Space>> \o IdB
              \o <<",", "\"assetId\":", Space, Quote>> \o IdA \o <<Quote>>),
       Container("div", <<"row">>, EmptyDict, <<HrefB>>, CuesFull, FALSE),
       Container("li", <<"row">>, EmptyDict, <<HrefA>>, CuesFull, TRUE),
       Container("div", <<"media", "-item">>, ("data-asset-id" :> IdA),
                 <<HrefA>>, CuesFull, FALSE),
       Container("article", <<"result">>, EmptyDict,
                 <<HrefNone, HrefShort, HrefB>>, CuesSome, FALSE),
       Container("div", <<"asset">>,
                 ("data-asset-id" :> << >>) @@ ("data-catalog-id" :> IdB),
                 <<HrefA>>, NoCues, FALSE),
       Container("div", <<"media">>, ("data-asset-id" :> IdWord),
                 << >>, NoCues, FALSE),
       Container("div", <<"media">>, ("data-asset-id" :> IdA),
                 << >>, CuesSome, TRUE),
       Container("div", <<"result">>, EmptyDict, << >>, CuesSome, FALSE),
       Container("article", <<"asset">>,
                 ("data-asset-id" :> IdB) @@ ("data-catalog-id" :> IdA),
                 <<HrefA>>, NoCues, FALSE) >>

\* every key the parser reads; the keys search_species always sends; none
ParamsUniverse ==
    << [mediaType |-> "photo", regionCode |-> "US-NY", beginMonth |-> "5",
        tag |-> "song", taxonCode |-> "norcar"],
       [view |-> "list", all |-> "true", taxonCode |-> "norcar",
        mediaType |-> "audio"],
       EmptyDict >>

Pending == [status |-> "pending", value |-> None]

\* a call of the parser alone involves no MacaulayLookup instance
NoCore ==
    /\ ebird_api = None
    /\ args = EmptyDict
    /\ frame = EmptyDict
    /\ log = << >>

-----------------------------------------------------------------------------
(* The parser's operations, one call each. *)

InitCatalog ==
    /\ op = "parse_catalog_page"
    /\ \E n \in 0..MaxNodes :
         \E idx \in [1..n -> 1..Len(NodeUniverse)] :
            soup = [i \in 1..n |-> NodeUniverse[idx[i]]]
    /\ \E p \in 1..Len(ParamsUniverse) : search_params = ParamsUniverse[p]
    /\ catalog_id = << >>
    /\ pc = "call"
    /\ media_records = << >>
    /\ outcome = Pending
    /\ previous = Pending
    /\ NoCore

ParseCatalogPage ==
    /\ op = "parse_catalog_page"
    /\ pc = "call"
    /\ media_records' = Candidates(soup, search_params).value
    /\ outcome' = ParseCatalogPageOutcome(soup, search_params)
    /\ pc' = "done"
    /\ UNCHANGED <<op, soup, search_params, catalog_id, previous>>
    /\ UNCHANGED core

NextCatalog == ParseCatalogPage

SpecCatalog == InitCatalog /\ [][NextCatalog]_vars

\* the elements with a property attribute the asset pages draw from
MetaUniverse ==
    << [property |-> <<"og:", "Location">>, content |-> Some("Ithaca, NY"),
        text |-> ""],
       [property |-> <<"DATE">>, content |-> None, text |-> "2020-05-01"],
       [property |-> <<"article:", "Author">>, content |-> Some("Jane Doe"),
        text |-> "by"],
       [property |-> <<"dc.", "creator">>, content |-> None,
        text |-> "John Roe"],
       [property |-> <<"og:", "title">>, content |-> Some("Robin"),
        text |-> ""] >>

InitAsset ==
    /\ op = "parse_asset_page"
    /\ \E h1 \in {None, Some("American Robin")},
          titled \in {None, Some("Robin - Macaulay Library")},
          scientific \in {None, Some("Turdus migratorius")},
          n \in 0..MaxMetaElements :
         \E idx \in [1..n -> 1..Len(MetaUniverse)], fault \in 0..(2 + n) :
            soup = [h1 |-> h1, titled |-> titled, scientific |-> scientific,
                    meta_elements |-> [i \in 1..n |-> MetaUniverse[idx[i]]],
                    fault |-> fault]
    /\ search_params = EmptyDict
    /\ catalog_id \in {IdA, IdShort}
    /\ pc = "call"
    /\ media_records = << >>
    /\ outcome = Pending
    /\ previous = Pending
    /\ NoCore

ParseAssetPage ==
    /\ op = "parse_asset_page"
    /\ pc = "call"
    /\ outcome' = ParseAssetPageOutcome(soup, catalog_id)
    /\ pc' = "done"
    /\ UNCHANGED <<op, soup, search_params, catalog_id, media_records,
                   previous>>
    /\ UNCHANGED core

NextAsset == ParseAssetPage

SpecAsset == InitAsset /\ [][NextAsset]_vars

\* the elements and texts the pagination pages draw from
PageUniverse ==
    LET \* the links the pagination pages draw from
        LinkOne == PageLink("a", Some(<<"1">>), <<"1">>)
        LinkTwo == PageLink("a", Some(<<"2">>), <<"2">>)
        LinkThree == PageLink("a", Some(<<"3">>), <<"3">>)
        LinkTwelve == PageLink("a", Some(<<"1", "2">>), <<"1", "2">>)
        LinkNext == PageLink("a", Some(<<"Next">>), <<"Next">>)
        LinkPrev == PageLink("a", Some(<<"Prev">>), <<"Prev">>)
        LinkArrow == PageLink("a", Some(<<">">>), <<">">>)
        ButtonMore ==
            PageLink("button", Some(<<"Load", Space, "More">>),
                     <<"Load", Space, "More">>)
        ButtonNine == PageLink("button", Some(<<"9">>), <<"9">>)
        \* <a><span>4</span> of 4</a>: two children, so .string is None
        LinkMixed == PageLink("a", None, <<"4", Space, "of", Space, "4">>)
        \* <a href="?page=2"><!--2--></a>
        LinkComment == PageLink("a", Some(<<"2">>), << >>)
        \* <a href="?page=2">Next <span>page</span></a>: two children, so .string
        \* is None
        LinkNextPage == PageLink("a", None, <<"Next", Space, "page">>)
    IN
    << PageElement(("class" :> <<"pagination">>), << >>,
                   <<LinkOne, LinkTwo, LinkThree, LinkNext>>),
       PageElement(("class" :> <<"pager">>), << >>, <<ButtonMore>>),
       PageElement(("aria-label" :> <<"pagination", Space, "navigation">>),
                   << >>, <<LinkArrow>>),
       PageElement(("role" :> <<"navigation">>), << >>,
                   <<LinkTwelve, LinkTwo, ButtonNine, LinkMixed>>),
       PageElement(("class" :> <<"top-", "page-nav">>), << >>, <<LinkPrev>>),
       PageElement(("class" :> <<"Pagination">>), << >>,
                   <<LinkOne, LinkComment, LinkNext>>),
       PageElement(("class" :> <<"content">>), << >>,
                   <<LinkNext, LinkThree>>),
       PageElement(("class" :> <<"pagination">>), << >>, << >>),
       PageElement(EmptyDict,
                   <<"1", "5", "0", Space, "of", Space, "5", "0", "0", Space,
                     "results">>, << >>),
       PageElement(EmptyDict,
                   <<"showing", Space, "2", "5", Space, "of", Space,
                     "2", "0", "0", Space, "results">>, << >>),
       PageElement(EmptyDict,
                   <<"3", "0", "0", Space, "results", Space, "found">>,
                   << >>),
       PageElement(EmptyDict,
                   <<"Showing", Space, "1", "-", "5", "0", Space, "of",
                     Space, "3", "4", "2", Space, "results">>, << >>),
       PageElement(EmptyDict,
                   <<"1", "-", "2", "5", Space, "of", Space, "1", "0", "0",
                     Space, "Results">>, << >>),
       PageElement(EmptyDict,
                   <<"No", Space, "pagination", Space, "here">>, << >>),
       PageElement(EmptyDict, <<Space, "result">>, << >>),
       PageElement(("class" :> <<"pager">>), << >>,
                   <<LinkPrev, LinkNextPage>>) >>

InitPagination ==
    /\ op = "detect_pagination_info"
    /\ \E n \in 0..MaxPageNodes :
         \E idx \in [1..n -> 1..Len(PageUniverse)] :
            soup = [i \in 1..n |-> PageUniverse[idx[i]]]
    /\ search_params = EmptyDict
    /\ catalog_id = << >>
    /\ pc = "call"
    /\ media_records = << >>
    /\ outcome = Pending
    /\ previous = Pending
    /\ NoCore

DetectPaginationInfo ==
    /\ op = "detect_pagination_info"
    /\ pc = "call"
    /\ outcome' = DetectPaginationInfoOutcome(soup)
    /\ pc' = "done"
    /\ UNCHANGED <<op, soup, search_params, catalog_id, media_records,
                   previous>>
    /\ UNCHANGED core

NextPagination == DetectPaginationInfo

SpecPagination == InitPagination /\ [][NextPagination]_vars

\* detect_pagination_info on a page that is one text, every sequence of the
\* words of a result count up to a length
InitCountText ==
    /\ op = "detect_pagination_info"
    /\ \E n \in 0..MaxTextLen :
         \E text \in [1..n -> {"1", Space, "-", "of", "Showing", "results"}] :
            soup = <<PageElement(EmptyDict, text, << >>)>>
    /\ search_params = EmptyDict
    /\ catalog_id = << >>
    /\ pc = "call"
    /\ media_records = << >>
    /\ outcome = Pending
    /\ previous = Pending
    /\ NoCore

SpecCountText == InitCountText /\ [][NextPagination]_vars

\* the three operations of the parser, one call each
InitParser == InitCatalog \/ InitPagination \/ InitAsset

NextParser == ParseCatalogPage \/ DetectPaginationInfo \/ ParseAssetPage

SpecParser == InitParser /\ [][NextParser]_vars

-----------------------------------------------------------------------------
(* The deduplication step alone, applied to a candidate list and then to   *)
(* its own output.                                                         *)

CandidateUniverse ==
    << BaseRecord(IdA, ParamsUniverse[1]),
       Update(BaseRecord(IdA, ParamsUniverse[1]),
              ExtractMetadataFromContainer(NodeUniverse[12]).value),
       BaseRecord(IdB, ParamsUniverse[1]),
       Update(BaseRecord(IdB, ParamsUniverse[1]),
              ExtractMetadataFromContainer(NodeUniverse[13]).value),
       BaseRecord(IdShort, ParamsUniverse[1]),
       BaseRecord(IdWord, ParamsUniverse[1]) >>

InitDedupe ==
    /\ op = "dedupe"
    /\ soup = << >>
    /\ search_params = ParamsUniverse[1]
    /\ catalog_id = << >>
    /\ pc = "call"
    /\ \E n \in 0..MaxCandidates :
         \E idx \in [1..n -> 1..Len(CandidateUniverse)] :
            media_records = [i \in 1..n |-> CandidateUniverse[idx[i]]]
    /\ outcome = Pending
    /\ previous = Pending
    /\ NoCore

\* the first pass over the candidates
DedupeCandidates ==
    /\ op = "dedupe"
    /\ pc = "call"
    /\ outcome' = Returned(Dedupe(media_records))
    /\ pc' = "done"
    /\ UNCHANGED <<op, soup, search_params, catalog_id, media_records,
                   previous>>
    /\ UNCHANGED core

\* a second pass, over the output of the first
DedupeAgain ==
    /\ op = "dedupe"
    /\ pc = "done"
    /\ previous' = outcome
    /\ outcome' = Returned(Dedupe(outcome.value))
    /\ pc' = "again"
    /\ UNCHANGED <<op, soup, search_params, catalog_id, media_records>>
    /\ UNCHANGED core

NextDedupe == DedupeCandidates \/ DedupeAgain

SpecDedupe == InitDedupe /\ [][NextDedupe]_vars

-----------------------------------------------------------------------------
(* taxonomy.py: eBirdTaxonomy.                                             *)
(*                                                                         *)
(* taxonomy_data is the sequence of its rows in table order.  A name is a  *)
(* sequence of tokens: a word, a space, or one of the characters "." and   *)
(* "(" that a regular expression reads as an operator.                     *)

TaxonRow(code, common, sci) ==
    [SPECIES_CODE |-> code, PRIMARY_COM_NAME |-> common, SCI_NAME |-> sci]

\* str.lower() of a text
LowerStr(s) == [i \in 1..Len(s) |-> Lower(s[i])]

\* re.compile(pat) fails: a "(" that nothing closes
BadPattern(pat) ==
    \E i \in 1..Len(pat) :
        /\ pat[i] = "("
        /\ \A j \in (i + 1)..Len(pat) : pat[j] # ")"

\* whether the pattern matches the text at position i, case ignored: "."
\* stands for any one token, every other token for itself
PatternAt(pat, text, i) ==
    /\ i + Len(pat) - 1 <= Len(text)
    /\ \A k \in 1..Len(pat) :
          \/ pat[k] = "."
          \/ Lower(pat[k]) = Lower(text[i + k - 1])

\* re.search(pat, text, re.IGNORECASE) finds a match
PatternFound(pat, text) ==
    \E i \in 1..(Len(text) + 1) : PatternAt(pat, text, i)

\* the lookup of a name in one column: the exact match first, then
\* Series.str.contains(name, case=False, na=False), which reads the name
\* as a regular expression
GetTaxonCode(taxonomy_data, column, name) ==
    LET exact == SelectSeq(taxonomy_data,
                     LAMBDA row : LowerStr(row[column]) = LowerStr(name))
        partial == SelectSeq(taxonomy_data,
                       LAMBDA row : PatternFound(name, row[column]))
    IN  IF exact # << >> THEN Returned(Some(Head(exact).SPECIES_CODE))
        ELSE IF BadPattern(name) THEN Raised
        ELSE IF partial # << >>
        THEN Returned(Some(Head(partial).SPECIES_CODE))
        ELSE Returned(None)

\* eBirdTaxonomy.get_taxon_code_by_common_name
GetTaxonCodeByCommonName(taxonomy_data, common_name) ==
    GetTaxonCode(taxonomy_data, "PRIMARY_COM_NAME", common_name)

\* eBirdTaxonomy.get_taxon_code_by_scientific_name
GetTaxonCodeByScientificName(taxonomy_data, scientific_name) ==
    GetTaxonCode(taxonomy_data, "SCI_NAME", scientific_name)

\* the names and rows the model draws from
NameAmericanRobin == <<"American", Space, "Robin">>

NameBlueJay == <<"Blue", Space, "Jay">>

TaxonomyRows ==
    << TaxonRow("amerob", NameAmericanRobin, <<"Turdus", Space, "migratorius">>),
       TaxonRow("eurrob1", <<"European", Space, "Robin">>,
                <<"Erithacus", Space, "rubecula">>),
       TaxonRow("robin", <<"Robin">>, <<"Turdus">>),
       TaxonRow("blujay", NameBlueJay, <<"Cyanocitta", Space, "cristata">>) >>

-----------------------------------------------------------------------------
(* core.py: MacaulayLookup.                                                *)
(*                                                                         *)
(* An optional argument is None or Some(value).  A month is a number, a    *)
(* name a sequence of tokens, every other argument a string.  What the     *)
(* network answers to a request is chosen when the request is made.        *)

\* an exception of a given class leaves the method
RaisedWith(exception) == [status |-> "raised", value |-> Some(exception)]

\* bool(x) of an optional number, string, name
TruthyInt(x) == x # None /\ Head(x) # 0

TruthyStr(x) == x # None /\ Head(x) # ""

TruthyName(x) == x # None /\ Head(x) # << >>

\* one thing a call did: a search_species call, an HTTP request, a call of
\* the parser, a sleep
Event(type, arg, result) == [type |-> type, arg |-> arg, result |-> result]

\* the events of one type, in the order they happened
EventsOf(events, type) == SelectSeq(events, LAMBDA e : e.type = type)

\* the answer to session.get(url, timeout=30) and raise_for_status(): an
\* exception of requests (kind is its class), or a page
Failure(kind) == [kind |-> kind, page |-> << >>]

Page(nodes) == [kind |-> "ok", page |-> nodes]

RequestExceptions == {"ConnectionError", "Timeout", "HTTPError"}

\* lst[:n]
Slice(lst, n) ==
    IF n >= 0
    THEN SubSeq(lst, 1, IF n < Len(lst) THEN n ELSE Len(lst))
    ELSE SubSeq(lst, 1, IF Len(lst) + n > 0 THEN Len(lst) + n ELSE 0)

\* the whole list is returned
FetchMediaDataUnlimited(params, max_results, response) ==
    IF response.kind \in RequestExceptions
    THEN [outcome |-> Returned(<< >>),
          events |-> <<Event("get", params, response)>>]
    ELSE LET parsed == ParseCatalogPageOutcome(response.page, params)
         IN  [outcome |-> IF parsed.status = "raised"
                          THEN RaisedWith("Exception")
                          ELSE Returned(parsed.value),
              events |-> <<Event("get", params, response),
                           Event("parse", params, parsed)>>]

\* the parser is called on the body of a failed request too
FetchMediaDataParsesFailure(params, max_results, response) ==
    LET parsed == ParseCatalogPageOutcome(response.page, params)
    IN  [outcome |-> IF parsed.status = "raised"
                     THEN RaisedWith("Exception")
                     ELSE Returned(Slice(parsed.value, max_results)),
         events |-> <<Event("get", params, response),
                      Event("parse", params, parsed)>>]

\* MacaulayLookup._fetch_media_data(params, max_results), the network
\* answering with response: what it returns or raises, and what it did
FetchMediaData(params, max_results, response) ==
    IF response.kind \in RequestExceptions
    THEN [outcome |-> Returned(<< >>),
          events |-> <<Event("get", params, response)>>]
    ELSE LET parsed == ParseCatalogPageOutcome(response.page, params)
         IN  [outcome |-> IF parsed.status = "raised"
                          THEN RaisedWith("Exception")
                          ELSE Returned(Slice(parsed.value, max_results)),
              events |-> <<Event("get", params, response),
                           Event("parse", params, parsed)>>]

\* the taxonomy table of the instance
taxonomy_data == TaxonomyRows

\* the key and value params gets when the argument is truthy
OptionalParam(key, x, truthy) ==
    IF truthy THEN (key :> Head(x)) ELSE EmptyDict

\* the scientific name is looked up when the common name finds nothing
ResolveTaxonCodeFallsBack(a) ==
    LET by_common ==
            IF TruthyName(a.common_name)
            THEN GetTaxonCodeByCommonName(taxonomy_data, Head(a.common_name))
            ELSE Returned(None)
    IN  IF TruthyStr(a.taxon_code) THEN Returned(a.taxon_code)
        ELSE IF by_common # Returned(None) THEN by_common
        ELSE IF TruthyName(a.scientific_name)
        THEN GetTaxonCodeByScientificName(taxonomy_data,
                                          Head(a.scientific_name))
        ELSE Returned(a.taxon_code)

\* search_species, lines 84-88: taxon_code after the name lookups, or that
\* a lookup raised
ResolveTaxonCode(a) ==
    IF TruthyStr(a.taxon_code) THEN Returned(a.taxon_code)
    ELSE IF TruthyName(a.common_name)
    THEN GetTaxonCodeByCommonName(taxonomy_data, Head(a.common_name))
    ELSE IF TruthyName(a.scientific_name)
    THEN GetTaxonCodeByScientificName(taxonomy_data,
                                      Head(a.scientific_name))
    ELSE Returned(a.taxon_code)

\* begin_month is used when it is given
BeginMonthKept(a) == IF a.begin_month # None THEN a.begin_month ELSE a.month

\* search_species, lines 95-96: begin_month and end_month after the month
\* argument was looked at
BeginMonth(a) == IF a.month # None THEN a.month ELSE a.begin_month

EndMonth(a) == IF a.month # None THEN a.month ELSE a.end_month

\* search_species, lines 99-119: the dict params
SearchParams(a, taxon_code) ==
    [view |-> "list", all |-> "true", taxonCode |-> taxon_code,
     mediaType |-> a.media_type]
    @@ OptionalParam("regionCode", a.region, TruthyStr(a.region))
    @@ OptionalParam("beginMonth", BeginMonth(a), TruthyInt(BeginMonth(a)))
    @@ OptionalParam("endMonth", EndMonth(a), TruthyInt(EndMonth(a)))
    @@ OptionalParam("tag", a.tag, TruthyStr(a.tag))
    @@ OptionalParam("quality", a.quality, TruthyStr(a.quality))
    @@ OptionalParam("background", a.background, TruthyStr(a.background))
    @@ OptionalParam("recordist", a.recordist, TruthyStr(a.recordist))

\* the request is made with no taxon code too
SearchSpeciesAlwaysFetches(a, response) ==
    LET resolved == ResolveTaxonCode(a)
    IN  IF resolved.status = "raised"
        THEN [outcome |-> RaisedWith("re.error"), events |-> << >>]
        ELSE FetchMediaData(
                 SearchParams(a, IF TruthyStr(resolved.value)
                                 THEN Head(resolved.value) ELSE ""),
                 a.max_results, response)

\* MacaulayLookup.search_species(**a), the network answering with response
SearchSpecies(a, response) ==
    LET resolved == ResolveTaxonCode(a)
    IN  IF resolved.status = "raised"
        THEN [outcome |-> RaisedWith("re.error"), events |-> << >>]
        ELSE IF ~TruthyStr(resolved.value)
        THEN [outcome |-> Returned(<< >>), events |-> << >>]
        ELSE FetchMediaData(SearchParams(a, Head(resolved.value)),
                            a.max_results, response)

\* what the network answers to a catalog request
ResponseUniverse ==
    << Failure("ConnectionError"),
       Failure("HTTPError"),
       Page(<< >>),
       Page(<<NodeUniverse[1], NodeUniverse[13], NodeUniverse[8]>>),
       Page(<<NodeUniverse[2], NodeUniverse[16]>>) >>

\* no call of the parser alone is involved
NoParserCall ==
    /\ soup = << >>
    /\ search_params = EmptyDict
    /\ catalog_id = << >>
    /\ media_records = << >>
    /\ previous = Pending

InitSearch ==
    /\ \/ /\ op = "search_species"
           /\ \E common_name \in {None, Some(NameAmericanRobin), Some(<<"robin">>),
                                  Some(<<"Dodo">>), Some(<< >>),
                                  Some(<<"robin", Space, "(">>)},
                 scientific_name \in {None, Some(<<"turdus">>)},
                 taxon_code \in {None, Some("norcar"), Some("")},
                 region \in {None, Some("US-NY")},
                 begin_month \in {None, Some(3)},
                 end_month \in {None, Some(9)},
                 month \in {None, Some(0), Some(5)},
                 tag \in {None, Some("song")},
                 max_results \in {0, 2, 100} :
                args = [common_name |-> common_name,
                        scientific_name |-> scientific_name,
                        taxon_code |-> taxon_code, region |-> region,
                        begin_month |-> begin_month, end_month |-> end_month,
                        month |-> month, tag |-> tag,
                        max_results |-> max_results,
                        \* the arguments the model leaves at their defaults
                        quality |-> None, background |-> None,
                        recordist |-> None, media_type |-> "audio"]
       \/ /\ op = "_fetch_media_data"
           /\ \E params \in {[taxonCode |-> "amerob", mediaType |-> "audio"],
                             [view |-> "list", all |-> "true",
                              taxonCode |-> "norcar", mediaType |-> "photo",
                              regionCode |-> "US-NY", beginMonth |-> 5,
                              endMonth |-> 5]},
                 max_results \in {-1, 0, 1, 2, 100} :
                args = [params |-> params, max_results |-> max_results]
    /\ ebird_api = None
    /\ frame = EmptyDict
    /\ log = << >>
    /\ pc = "call"
    /\ outcome = Pending
    /\ NoParserCall

\* a call of search_species
CallSearchSpecies ==
    /\ op = "search_species"
    /\ pc = "call"
    /\ \E r \in 1..Len(ResponseUniverse) :
         LET call == SearchSpecies(args, ResponseUniverse[r])
         IN  /\ outcome' = call.outcome
             /\ log' = log \o call.events
    /\ pc' = "done"
    /\ UNCHANGED <<op, soup, search_params, catalog_id, media_records,
                   previous, ebird_api, args, frame>>

\* a call of _fetch_media_data
CallFetchMediaData ==
    /\ op = "_fetch_media_data"
    /\ pc = "call"
    /\ \E r \in 1..Len(ResponseUniverse) :
         LET call == FetchMediaData(args.params, args.max_results,
                                    ResponseUniverse[r])
         IN  /\ outcome' = call.outcome
             /\ log' = log \o call.events
    /\ pc' = "done"
    /\ UNCHANGED <<op, soup, search_params, catalog_id, media_records,
                   previous, ebird_api, args, frame>>

NextSearch == CallSearchSpecies \/ CallFetchMediaData

SpecSearch == InitSearch /\ [][NextSearch]_vars

\* the arguments search_multiple_species calls search_species with for one
\* entry of species_list (lines 152-160)
SpeciesArgs(f, species) ==
    [common_name |-> Some(species), scientific_name |-> None,
     taxon_code |-> None, region |-> f.region,
     begin_month |-> f.begin_month, end_month |-> f.end_month,
     month |-> None, media_type |-> f.media_type, tag |-> f.tag,
     quality |-> None, background |-> None, recordist |-> None,
     max_results |-> f.max_results_per_species]

\* time.sleep(self.rate_limit)
Sleep == Event("sleep", "rate_limit", None)

\* the sleep is made only after a search that found something
SearchOneSleepsOnResults(f, response) ==
    LET species == f.species_list[f.searched + 1]
        call == SearchSpecies(SpeciesArgs(f, species), response)
        searched == <<Event("search_species", species, call.outcome)>>
    IN  [outcome |-> call.outcome,
         events |-> call.events \o searched
                    \o IF call.outcome.status = "returned"
                          /\ call.outcome.value # << >>
                       THEN <<Sleep>> ELSE << >>]

\* one turn of the loop of search_multiple_species (lines 150-164): the
\* outcome of its search_species call and what the turn did.  The search
\* is logged when it is over, after its requests; the sleep is not reached
\* when the search raises.
SearchOne(f, response) ==
    LET species == f.species_list[f.searched + 1]
        call == SearchSpecies(SpeciesArgs(f, species), response)
        searched == <<Event("search_species", species, call.outcome)>>
    IN  [outcome |-> call.outcome,
         events |-> call.events \o searched
                    \o IF call.outcome.status = "returned"
                       THEN <<Sleep>> ELSE << >>]

\* the locals of search_multiple_species when its loop starts
LoopFrame(species_list, a) ==
    [species_list |-> species_list, region |-> a.region,
     begin_month |-> a.begin_month, end_month |-> a.end_month,
     media_type |-> a.media_type, tag |-> a.tag,
     max_results_per_species |-> a.max_results_per_species,
     all_results |-> << >>, searched |-> 0]

\* the answer of the eBird API to the request for a hotspot's observations
Observations(obs) == [kind |-> "ok", observations |-> obs]

\* eBirdAPI.get_recent_observations_by_hotspot: [] when the request fails
GetRecentObservationsByHotspot(answer) ==
    IF answer.kind \in RequestExceptions THEN << >> ELSE answer.observations

\* self.ebird_api is not looked at
HotspotKeyNotChecked(api, a, answer) ==
    LET species_list == GetRecentObservationsByHotspot(answer)
        requested == <<Event("ebird_get", a.hotspot_id, answer)>>
    IN  IF species_list = << >>
        THEN [outcome |-> Returned(<< >>), events |-> requested,
              common_names |-> << >>]
        ELSE [outcome |-> Pending, events |-> requested,
              common_names |-> [i \in 1..Len(species_list) |->
                                   species_list[i].comName]]

\* search_from_ebird_hotspot up to its call of search_multiple_species
\* (lines 193-206): the outcome when it ends there (Pending when it goes
\* on), what it did, and the names it goes on with
Hotspot(api, a, answer) ==
    IF api = None
    THEN [outcome |-> RaisedWith("ValueError"), events |-> << >>,
          common_names |-> << >>]
    ELSE LET species_list == GetRecentObservationsByHotspot(answer)
             requested == <<Event("ebird_get", a.hotspot_id, answer)>>
         IN  IF species_list = << >>
             THEN [outcome |-> Returned(<< >>), events |-> requested,
                   common_names |-> << >>]
             ELSE [outcome |-> Pending, events |-> requested,
                   common_names |-> [i \in 1..Len(species_list) |->
                                        species_list[i].comName]]

\* the species names a species_list is drawn from
SpeciesUniverse ==
    << NameAmericanRobin, <<"robin">>, <<"Dodo">>, NameBlueJay,
       <<"robin", Space, "(">> >>

\* what the eBird API answers
ObservationUniverse ==
    << [kind |-> "Timeout", observations |-> << >>],
       Observations(<< >>),
       Observations(<<[comName |-> NameAmericanRobin]>>),
       Observations(<<[comName |-> NameBlueJay], [comName |-> <<"Dodo">>]>>) >>

InitBatch ==
    /\ \/ /\ op = "search_multiple_species"
           /\ \E n \in 0..MaxSpecies, begin_month \in {None, Some(3)},
                 max_results_per_species \in {1, 50} :
                \E idx \in [1..n -> 1..Len(SpeciesUniverse)] :
                   args = [species_list |-> [i \in 1..n |-> SpeciesUniverse[idx[i]]],
                           region |-> Some("US-NY"), begin_month |-> begin_month,
                           end_month |-> None, media_type |-> "audio",
                           tag |-> None,
                           max_results_per_species |-> max_results_per_species]
       \/ /\ op = "search_from_ebird_hotspot"
           /\ \E end_month \in {None, Some(9)},
                 max_results_per_species \in {1, 20} :
                args = [hotspot_id |-> "L12345", days_back |-> 30,
                        region |-> None, begin_month |-> None,
                        end_month |-> end_month, media_type |-> "photo",
                        max_results_per_species |-> max_results_per_species]
    /\ ebird_api \in {None, Some("key")}
    /\ frame = EmptyDict
    /\ log = << >>
    /\ pc = "call"
    /\ outcome = Pending
    /\ NoParserCall

\* search_multiple_species is called: all_results = []
SearchMultipleSpecies ==
    /\ op = "search_multiple_species"
    /\ pc = "call"
    /\ frame' = LoopFrame(args.species_list, args)
    /\ pc' = "loop"
    /\ UNCHANGED <<op, soup, search_params, catalog_id, media_records,
                   outcome, previous, ebird_api, args, log>>

\* search_from_ebird_hotspot is called: it raises, returns [], or calls
\* search_multiple_species with the names observed
SearchFromEbirdHotspot ==
    /\ op = "search_from_ebird_hotspot"
    /\ pc = "call"
    /\ \E o \in 1..Len(ObservationUniverse) :
         LET call == Hotspot(ebird_api, args, ObservationUniverse[o])
         IN  /\ log' = log \o call.events
             /\ outcome' = call.outcome
             /\ IF call.outcome = Pending
                THEN /\ frame' = LoopFrame(call.common_names,
                                           args @@ [tag |-> None])
                     /\ pc' = "loop"
                ELSE /\ frame' = frame
                     /\ pc' = "done"
    /\ UNCHANGED <<op, soup, search_params, catalog_id, media_records,
                   previous, ebird_api, args>>

\* one turn of the loop over species_list
SearchNextSpecies ==
    /\ pc = "loop"
    /\ frame.searched < Len(frame.species_list)
    /\ \E r \in 1..Len(ResponseUniverse) :
         LET turn == SearchOne(frame, ResponseUniverse[r])
         IN  /\ log' = log \o turn.events
             /\ IF turn.outcome.status = "raised"
                THEN /\ outcome' = turn.outcome
                     /\ pc' = "done"
                     /\ frame' = frame
                ELSE /\ frame' = [frame EXCEPT
                           !.all_results = @ \o turn.outcome.value,
                           !.searched = @ + 1]
                     /\ UNCHANGED <<outcome, pc>>
    /\ UNCHANGED <<op, soup, search_params, catalog_id, media_records,
                   previous, ebird_api, args>>

\* the loop is over: return all_results
ReturnAllResults ==
    /\ pc = "loop"
    /\ frame.searched = Len(frame.species_list)
    /\ outcome' = Returned(frame.all_results)
    /\ pc' = "done"
    /\ UNCHANGED <<op, soup, search_params, catalog_id, media_records,
                   previous, ebird_api, args, frame, log>>

NextBatch ==
    \/ SearchMultipleSpecies
    \/ SearchFromEbirdHotspot
    \/ SearchNextSpecies
    \/ ReturnAllResults

SpecBatch == InitBatch /\ [][NextBatch]_vars

\* the names the lookups alone are called with
LookupNames ==
    << NameAmericanRobin, <<"american", Space, "robin">>, <<"Robin">>,
       <<"ROBIN">>, <<"Dodo">>, << >>, <<"American", ".", "Robin">>,
       <<"robin", Space, "(">>, <<"turdus">>,
       <<"Turdus", Space, "migratorius">> >>

InitTaxonomy ==
    /\ op \in {"get_taxon_code_by_common_name",
               "get_taxon_code_by_scientific_name"}
    /\ \E n \in 0..MaxRows, k \in 1..Len(LookupNames) :
         \E idx \in [1..n -> 1..Len(TaxonomyRows)] :
            args = [taxonomy_data |-> [i \in 1..n |-> TaxonomyRows[idx[i]]],
                    name |-> LookupNames[k]]
    /\ ebird_api = None
    /\ frame = EmptyDict
    /\ log = << >>
    /\ pc = "call"
    /\ outcome = Pending
    /\ NoParserCall

\* a call of get_taxon_code_by_common_name
CallGetTaxonCodeByCommonName ==
    /\ op = "get_taxon_code_by_common_name"
    /\ pc = "call"
    /\ outcome' = GetTaxonCodeByCommonName(args.taxonomy_data, args.name)
    /\ pc' = "done"
    /\ UNCHANGED <<op, soup, search_params, catalog_id, media_records,
                   previous, core>>

\* a call of get_taxon_code_by_scientific_name
CallGetTaxonCodeByScientificName ==
    /\ op = "get_taxon_code_by_scientific_name"
    /\ pc = "call"
    /\ outcome' = GetTaxonCodeByScientificName(args.taxonomy_data, args.name)
    /\ pc' = "done"
    /\ UNCHANGED <<op, soup, search_params, catalog_id, media_records,
                   previous, core>>

NextTaxonomy ==
    CallGetTaxonCodeByCommonName \/ CallGetTaxonCodeByScientificName

SpecTaxonomy == InitTaxonomy /\ [][NextTaxonomy]_vars

-----------------------------------------------------------------------------
(* Several calls, one after the other, on one parser object.  log holds    *)
(* the calls that are over: the operation, its arguments and its outcome.  *)

\* the calls the caller chooses from
RepeatCalls ==
    {[op |-> "parse_catalog_page", soup |-> <<NodeUniverse[i]>>,
      search_params |-> ParamsUniverse[p]] : i \in {1, 7, 12, 16}, p \in {1, 3}}
    \cup {[op |-> "detect_pagination_info", soup |-> <<PageUniverse[i]>>,
           search_params |-> EmptyDict] : i \in {1, 6, 9}}

InitRepeat ==
    /\ \E c \in RepeatCalls :
         /\ op = c.op
         /\ soup = c.soup
         /\ search_params = c.search_params
    /\ catalog_id = << >>
    /\ pc = "call"
    /\ media_records = << >>
    /\ outcome = Pending
    /\ previous = Pending
    /\ NoCore

\* the caller, after a call is over, makes the next one
CallAgain ==
    /\ pc = "done"
    /\ Len(log) < MaxCalls - 1
    /\ log' = Append(log, Event(op, [soup |-> soup,
                                     search_params |-> search_params],
                                outcome))
    /\ \E c \in RepeatCalls :
         /\ op' = c.op
         /\ soup' = c.soup
         /\ search_params' = c.search_params
    /\ pc' = "call"
    /\ media_records' = << >>
    /\ previous' = outcome
    /\ outcome' = Pending
    /\ UNCHANGED <<catalog_id, ebird_api, args, frame>>

NextRepeat == ParseCatalogPage \/ DetectPaginationInfo \/ CallAgain

SpecRepeat == InitRepeat /\ [][NextRepeat]_vars

-----------------------------------------------------------------------------
(* taxonomy.py: the constructor of eBirdTaxonomy.                          *)
(*                                                                         *)
(* The surroundings of the call are in args: whether taxonomy_file exists, *)
(* what pd.read_csv makes of it (a table, or an exception), what the       *)
(* request for taxonomy_url answers, whether the file can be written, and  *)
(* what pd.read_csv makes of the content once written.  frame is the       *)
(* object under construction, log the reads, requests and writes.          *)

\* _create_fallback_taxonomy: the table fallback_data
FallbackTaxonomy ==
    << TaxonRow("amerob", NameAmericanRobin, <<"Turdus", Space, "migratorius">>),
       TaxonRow("norcar", <<"Northern", Space, "Cardinal">>,
                <<"Cardinalis", Space, "cardinalis">>),
       TaxonRow("blujay", NameBlueJay, <<"Cyanocitta", Space, "cristata">>),
       TaxonRow("rewbla", <<"Red-winged", Space, "Blackbird">>,
                <<"Agelaius", Space, "phoeniceus">>),
       TaxonRow("houspa", <<"House", Space, "Sparrow">>,
                <<"Passer", Space, "domesticus">>),
       TaxonRow("amecro", <<"American", Space, "Crow">>,
                <<"Corvus", Space, "brachyrhynchos">>),
       TaxonRow("norcmo", <<"Northern", Space, "Mockingbird">>,
                <<"Mimus", Space, "polyglottos">>),
       TaxonRow("mallar3", <<"Mallard">>, <<"Anas", Space, "platyrhynchos">>),
       TaxonRow("rocpig", <<"Rock", Space, "Pigeon">>,
                <<"Columba", Space, "livia">>),
       TaxonRow("mourdo", <<"Mourning", Space, "Dove">>,
                <<"Zenaida", Space, "macroura">>) >>

\* taxonomy_data is left at None when the download fails
DownloadTaxonomyNoFallback(env) ==
    LET get == Event("get", "taxonomy_url", env.response.kind)
        write == Event("write", "taxonomy_file", env.writable)
        read == Event("read_csv", "taxonomy_file", env.downloaded.status)
    IN  IF env.response.kind # "ok"
        THEN [taxonomy_data |-> None, events |-> <<get>>]
        ELSE IF ~env.writable
        THEN [taxonomy_data |-> None, events |-> <<get, write>>]
        ELSE IF env.downloaded.status = "raised"
        THEN [taxonomy_data |-> None, events |-> <<get, write, read>>]
        ELSE [taxonomy_data |-> Some(env.downloaded.value),
              events |-> <<get, write, read>>]

\* _download_taxonomy: the request, the write of the file and the read of
\* it are inside one try; except Exception calls the fallback
DownloadTaxonomy(env) ==
    LET get == Event("get", "taxonomy_url", env.response.kind)
        write == Event("write", "taxonomy_file", env.writable)
        read == Event("read_csv", "taxonomy_file", env.downloaded.status)
    IN  IF env.response.kind # "ok"
        THEN [taxonomy_data |-> Some(FallbackTaxonomy), events |-> <<get>>]
        ELSE IF ~env.writable
        THEN [taxonomy_data |-> Some(FallbackTaxonomy),
              events |-> <<get, write>>]
        ELSE IF env.downloaded.status = "raised"
        THEN [taxonomy_data |-> Some(FallbackTaxonomy),
              events |-> <<get, write, read>>]
        ELSE [taxonomy_data |-> Some(env.downloaded.value),
              events |-> <<get, write, read>>]

\* _load_taxonomy: the file when it exists, the download otherwise; except
\* Exception calls the fallback
LoadTaxonomy(env) ==
    LET read == Event("read_csv", "taxonomy_file", env.on_disk.status)
    IN  IF env.exists
        THEN IF env.on_disk.status = "raised"
             THEN [taxonomy_data |-> Some(FallbackTaxonomy),
                   events |-> <<read>>]
             ELSE [taxonomy_data |-> Some(env.on_disk.value),
                   events |-> <<read>>]
        ELSE DownloadTaxonomy(env)

InitLoad ==
    /\ op = "eBirdTaxonomy"
    /\ \E exists \in BOOLEAN, writable \in BOOLEAN,
          kind \in {"ok"} \cup RequestExceptions,
          on_disk \in {Raised, Returned(<< >>), Returned(TaxonomyRows)},
          downloaded \in {Raised, Returned(<< >>),
                          Returned(SubSeq(TaxonomyRows, 1, 1))} :
         args = [exists |-> exists, on_disk |-> on_disk,
                 response |-> [kind |-> kind], writable |-> writable,
                 downloaded |-> downloaded]
    /\ ebird_api = None
    /\ frame = EmptyDict
    /\ log = << >>
    /\ pc = "call"
    /\ outcome = Pending
    /\ NoParserCall

\* eBirdTaxonomy(taxonomy_file): __init__ sets taxonomy_data to None and
\* calls _load_taxonomy
ConstructTaxonomy ==
    /\ op = "eBirdTaxonomy"
    /\ pc = "call"
    /\ frame' = [taxonomy_data |-> LoadTaxonomy(args).taxonomy_data]
    /\ log' = log \o LoadTaxonomy(args).events
    /\ outcome' = Returned(None)
    /\ pc' = "done"
    /\ UNCHANGED <<op, soup, search_params, catalog_id, media_records,
                   previous, ebird_api, args>>

SpecLoad == InitLoad /\ [][ConstructTaxonomy]_vars

-----------------------------------------------------------------------------
(* Properties of parse_catalog_page. *)

\* the call returned
CatalogDone ==
    op = "parse_catalog_page" /\ pc = "done" /\ outcome.status = "returned"

\* the positions of a candidate list whose id occurs at no earlier position
FirstOccurrences(records) ==
    {i \in 1..Len(records) :
        \A j \in 1..(i - 1) : records[j].catalog_id # records[i].catalog_id}

\* the k-th smallest member of a set of numbers
KthSmallest(S, k) ==
    CHOOSE x \in S : Cardinality({y \in S : y < x}) = k - 1

\* the number of records of a list that carry the id
CountOf(records, id) ==
    Cardinality({i \in 1..Len(records) : records[i].catalog_id = id})

\* C1: the list parse_catalog_page returns holds no two records with the
\* same catalog_id, and its ids are the ids of the candidate list
\* media_records at the positions of their first occurrence, in that order.
C1_UniqueInFirstOccurrenceOrder ==
    CatalogDone =>
        LET out == outcome.value
            first == FirstOccurrences(media_records)
        IN  /\ \A i, j \in 1..Len(out) :
                 i # j => out[i].catalog_id # out[j].catalog_id
            /\ Len(out) = Cardinality(first)
            /\ \A k \in 1..Len(out) :
                 out[k].catalog_id
                     = media_records[KthSmallest(first, k)].catalog_id

\* a candidate list with a duplicate dropped and two ids kept
C1_Witness ==
    /\ CatalogDone
    /\ Len(outcome.value) >= 2
    /\ Len(media_records) > Len(outcome.value)
    /\ media_records[1].catalog_id = media_records[3].catalog_id

\* C2: the deduplication is idempotent: a second pass over the output of
\* the first returns that output, the same records in the same order.
C2_DedupeIdempotent ==
    (op = "dedupe" /\ pc = "again") => outcome.value = previous.value

\* a second pass after a first pass that dropped a duplicate and kept two
C2_Witness ==
    /\ op = "dedupe"
    /\ pc = "again"
    /\ Len(previous.value) >= 2
    /\ Len(media_records) > Len(previous.value)

\* C3: the record returned for an id is, field for field, the first
\* candidate with that id; nothing of a later duplicate is merged in.
C3_FirstCandidateWinsWhole ==
    CatalogDone =>
        \A k \in 1..Len(outcome.value) :
            \E i \in FirstOccurrences(media_records) :
                /\ media_records[i].catalog_id = outcome.value[k].catalog_id
                /\ media_records[i] = outcome.value[k]

\* the first candidate of an id has no metadata, a later one has, and the
\* record returned has none
C3_Witness ==
    /\ CatalogDone
    /\ \E i, j \in 1..Len(media_records) :
         /\ i < j
         /\ i \in FirstOccurrences(media_records)
         /\ media_records[i].catalog_id = media_records[j].catalog_id
         /\ media_records[i].common_name = ""
         /\ media_records[j].common_name # ""
         /\ \E k \in 1..Len(outcome.value) :
              /\ outcome.value[k].catalog_id = media_records[i].catalog_id
              /\ outcome.value[k].common_name = ""

\* the ids of the pages of the model
KnownIds == {IdA, IdB, IdShort, IdWord}

\* an anchor with href /asset/<id> stands inside a div, article or li
AnchorInContainerFinds(id) ==
    \E n \in 1..Len(soup) :
        /\ soup[n].tag \in ParentTags
        /\ \E h \in 1..Len(soup[n].links) :
             /\ CatalogIdMatches(soup[n].links[h])
             /\ CatalogIdGroup(soup[n].links[h]) = id

\* a script holds "assetId": "<id>"
ScriptAssetIdFinds(id) ==
    \E n \in 1..Len(soup) :
        /\ soup[n].tag = "script"
        /\ \E i \in 1..Len(soup[n].string) :
             LiteralAt(<<"\"assetId\":", Space, Quote>> \o id \o <<Quote>>,
                       soup[n].string, i)

\* a media/asset/result container carries data-asset-id="<id>"
ContainerAttributeFinds(id) ==
    \E n \in 1..Len(soup) :
        /\ soup[n].tag \in ContainerTags
        /\ ContainerClassMatches(soup[n].class)
        /\ "data-asset-id" \in DOMAIN soup[n].attrs
        /\ soup[n].attrs["data-asset-id"] = id

FoundByAllThree(id) ==
    /\ AnchorInContainerFinds(id)
    /\ ScriptAssetIdFinds(id)
    /\ ContainerAttributeFinds(id)

\* C4: an id that the page offers to all three strategies (an anchor inside
\* a container, an assetId in a script, a data-asset-id of a container) is
\* the catalog_id of exactly one record of the list returned.
C4_ThreeStrategiesOneRecord ==
    CatalogDone =>
        \A id \in KnownIds :
            FoundByAllThree(id) => CountOf(outcome.value, id) = 1

\* such a page, with the id three times among the candidates
C4_Witness ==
    /\ CatalogDone
    /\ \E id \in KnownIds :
         /\ FoundByAllThree(id)
         /\ CountOf(media_records, id) >= 3
         /\ CountOf(outcome.value, id) = 1

\* the matches of the five patterns in the scripts of the page: the script,
\* the pattern and the position of each
ScriptMatches ==
    {m \in (1..Len(soup)) \X (1..Len(catalog_patterns)) \X (1..12) :
        /\ soup[m[1]].tag = "script"
        /\ m[3] <= Len(soup[m[1]].string)
        /\ PatternMatchAt(catalog_patterns[m[2]], soup[m[1]].string, m[3])}

\* the token a match captures
Captured(m) ==
    LET s == soup[m[1]].string
        g == GroupStart(catalog_patterns[m[2]], s, m[3])
    IN  SubSeq(s, g, DigitRunEnd(s, g))

\* the page offers ids in scripts only
OnlyScriptsGiveIds ==
    /\ AssetLinks(soup) = << >>
    /\ \A n \in 1..Len(soup) :
         (soup[n].tag \in ContainerTags /\ ContainerClassMatches(soup[n].class))
             => ContainerCatalogId(soup[n]) = None

\* C5: on a page whose ids come from scripts only, there is one candidate
\* for each pattern match whose captured token has at least 6 digits and
\* none for a shorter one: a captured id of 6 digits or more is the id of
\* exactly one record returned, a shorter one of none.
C5_ScriptIdsOfSixDigits ==
    (CatalogDone /\ OnlyScriptsGiveIds) =>
        /\ Len(media_records)
             = Cardinality({m \in ScriptMatches : Len(Captured(m)) >= 6})
        /\ \A m \in ScriptMatches :
             CountOf(outcome.value, Captured(m))
                 = IF Len(Captured(m)) >= 6 THEN 1 ELSE 0
        /\ \A k \in 1..Len(outcome.value) :
             \E m \in ScriptMatches : Captured(m) = outcome.value[k].catalog_id

\* a page with "id": "42" in one script and "id":424242 in another: one
\* record, of the longer id
C5_Witness ==
    /\ CatalogDone
    /\ OnlyScriptsGiveIds
    /\ \E m \in ScriptMatches : Captured(m) = IdShort
    /\ \E m \in ScriptMatches : Captured(m) = IdB
    /\ Len(outcome.value) = 1
    /\ outcome.value[1].catalog_id = IdB

\* C6: in every candidate and every record returned, each query-derived
\* field whose key the search parameters hold equals the value under that
\* key, whatever the metadata heuristics found; the dict of the metadata
\* helper has no key outside common_name, location, date and recordist.
C6_QueryFieldsFromParams ==
    CatalogDone =>
        /\ \A k \in 1..Len(outcome.value) : \A f \in QueryFields :
             ParamOf(f) \in DOMAIN search_params
                 => outcome.value[k][f] = search_params[ParamOf(f)]
        /\ \A k \in 1..Len(media_records) : \A f \in QueryFields :
             ParamOf(f) \in DOMAIN search_params
                 => media_records[k][f] = search_params[ParamOf(f)]
        /\ \A n \in 1..Len(soup) :
             (soup[n].tag \in ParentTags /\ ~soup[n].fault)
                 => DOMAIN ExtractMetadataFromContainer(soup[n]).value
                        \subseteq MetadataFields

\* a record whose metadata was filled from a container, under search
\* parameters that hold all five keys
C6_Witness ==
    /\ CatalogDone
    /\ \A f \in QueryFields : ParamOf(f) \in DOMAIN search_params
    /\ \E k \in 1..Len(outcome.value) :
         /\ outcome.value[k].common_name # ""
         /\ outcome.value[k].location # ""
         /\ outcome.value[k].region = search_params["regionCode"]

\* C7 as stated: a query-derived field whose key is missing from the search
\* parameters is the empty string in every record returned.
C7_MissingKeyGivesEmptyString ==
    CatalogDone =>
        \A k \in 1..Len(outcome.value) : \A f \in QueryFields :
            ParamOf(f) \notin DOMAIN search_params => outcome.value[k][f] = ""

\* C7, amended: a query-derived field whose key is missing from the search
\* parameters is the empty string in every record returned, except
\* media_type, which is "unknown" when mediaType is missing.
C7_MissingKeyDefaults ==
    CatalogDone =>
        \A k \in 1..Len(outcome.value) : \A f \in QueryFields :
            ParamOf(f) \notin DOMAIN search_params
                => outcome.value[k][f]
                       = IF f = "media_type" THEN "unknown" ELSE ""

\* records of each strategy under search parameters without any of the keys
C7_Witness ==
    /\ CatalogDone
    /\ \A f \in QueryFields : ParamOf(f) \notin DOMAIN search_params
    /\ Len(outcome.value) >= 2
    /\ \E k \in 1..Len(outcome.value) : outcome.value[k].common_name # ""

\* the ids of the candidates whose processing does not raise: the links
\* outside a container that raises, the script matches of 6 digits or more,
\* the containers with an id that do not raise
IdsOfSoundCandidates ==
    {CatalogIdGroup(AssetLinks(soup)[i].href) : i \in
        {i \in 1..Len(AssetLinks(soup)) :
            \/ AssetLinks(soup)[i].parent = None
            \/ ~Head(AssetLinks(soup)[i].parent).fault}}
    \cup {Captured(m) : m \in {m \in ScriptMatches : Len(Captured(m)) >= 6}}
    \cup {Head(ContainerCatalogId(Containers(soup)[i])) : i \in
        {i \in 1..Len(Containers(soup)) :
            /\ ContainerCatalogId(Containers(soup)[i]) # None
            /\ ~Containers(soup)[i].fault}}

\* C8 as stated: a candidate whose processing raises (a link of strategy 1,
\* a container of strategy 3) is skipped alone: every candidate whose
\* processing does not raise has its id in the list the call returns.
C8_CandidateFailureSkipsOnlyIt ==
    (op = "parse_catalog_page" /\ pc = "done") =>
        \A id \in IdsOfSoundCandidates : CountOf(outcome.value, id) = 1

-----------------------------------------------------------------------------
(* Properties of parse_asset_page. *)

\* the eleven keys of the record of an asset page
AssetFields ==
    {"catalog_id", "url", "common_name", "scientific_name", "media_type",
     "location", "date", "recordist", "quality", "tags", "description"}

\* C10: parse_asset_page is all or nothing: when a step of the extraction
\* raises it returns None, never a record; when none raises it returns a
\* record with the catalog_id it was given and all eleven keys.
C10_AssetPageAllOrNothing ==
    (op = "parse_asset_page" /\ pc = "done") =>
        /\ outcome.status = "returned"
        /\ soup.fault # 0 => outcome.value = None
        /\ soup.fault = 0 =>
             /\ outcome.value # None
             /\ Head(outcome.value).catalog_id = catalog_id
             /\ DOMAIN Head(outcome.value) = AssetFields
             /\ Cardinality(DOMAIN Head(outcome.value)) = 11

\* a read raises after the names and a property element were extracted,
\* and the call returns None
C10_Witness ==
    /\ op = "parse_asset_page"
    /\ pc = "done"
    /\ soup.fault = 4
    /\ SpeciesElem(soup) # None
    /\ AssetRecordAfter(soup, catalog_id, 3).common_name # ""
    /\ AssetRecordAfter(soup, catalog_id, 3).location # ""
    /\ outcome = Returned(None)


-----------------------------------------------------------------------------
(* C9: no operation of the parser (parse_catalog_page,                     *)
(* detect_pagination_info, parse_asset_page) lets an exception reach its   *)
(* caller, whatever the document: every call that is over has returned.    *)
C9_NoExceptionEscapes ==
    (op \in {"parse_catalog_page", "detect_pagination_info",
             "parse_asset_page"} /\ pc = "done")
        => outcome.status = "returned"

-----------------------------------------------------------------------------
(* detect_pagination_info returned. *)
PaginationDone ==
    /\ op = "detect_pagination_info"
    /\ pc = "done"
    /\ outcome.status = "returned"

\* the position of the last token before position i that is no whitespace,
\* 0 when there is none
BackSkipSpace(s, i) ==
    CHOOSE j \in 0..(i - 1) :
        /\ (j = 0 \/ s[j] # Space)
        /\ \A k \in (j + 1)..(i - 1) : s[k] = Space

\* the start of the run of digits that ends at position j
DigitRunStart(s, j) ==
    CHOOSE i \in 1..j :
        /\ \A k \in i..j : s[k] \in Digit
        /\ (i = 1 \/ s[i - 1] \notin Digit)

\* the positions of the words result(s) that a number stands before
CountedResults(s) ==
    {r \in 1..Len(s) :
        /\ IsResult(s[r])
        /\ BackSkipSpace(s, r) >= 1
        /\ s[BackSkipSpace(s, r)] \in Digit}

\* the total the first count phrase of a text states, read backwards from
\* its word result(s): K for "M of K results" (also the end of "N-M of K
\* results" and of "showing N of M results"), None for "K results" alone
StatedTotal(s) ==
    IF CountedResults(s) = {} THEN None
    ELSE LET r == CHOOSE x \in CountedResults(s) :
                      \A y \in CountedResults(s) : x <= y
             e == BackSkipSpace(s, r)
             b == DigitRunStart(s, e)
             o == BackSkipSpace(s, b)
             n == BackSkipSpace(s, o)
         IN  IF /\ o >= 1
                /\ IsOf(s[o])
                /\ n >= 1
                /\ s[n] \in Digit
             THEN Some(IntOf(SubSeq(s, b, e)))
             ELSE None

(* C11: for page text holding a result-count phrase, total_results is the  *)
(* total the phrase states: M for "N of M results" and "showing N of M     *)
(* results", K for "N-M of K results", None for a phrase with no           *)
(* "of <total>" part such as "300 results found" (the first count phrase   *)
(* of the text being the one that is read).                                *)
C11_TotalResultsIsStatedTotal ==
    PaginationDone =>
        outcome.value.total_results = StatedTotal(GetText(soup))

\* a page that ends with "Showing 1-50 of 342 results", its only count
\* phrase, gave 342
C11_Witness ==
    /\ PaginationDone
    /\ Len(soup) = 2
    /\ soup[2] = PageUniverse[12]
    /\ CountedResults(GetText(soup)) = {Len(GetText(soup))}
    /\ outcome.value.total_results = Some(342)

-----------------------------------------------------------------------------
\* the element detect_pagination_info took for the pagination container
ChosenContainer ==
    Head(Find(pagination_patterns[FirstPattern(soup)], soup))

\* whether the text of a link matches next|more|>, in any case
TextSaysNext(l) == \E w \in NextWords : InLowered(w, l.text)

\* the numbers of the a elements of a container whose text is digits only
NumericLinkTexts(elem) ==
    {IntOf(elem.links[i].text) : i \in
        {j \in 1..Len(elem.links) :
            /\ elem.links[j].tag = "a"
            /\ IsDigitStr(elem.links[j].text)}}

(* C12: when a pagination container is matched, has_next_page is True iff  *)
(* the container holds a link or button whose text matches next|more|>,    *)
(* and total_pages is the maximum of the purely numeric link texts inside  *)
(* it, None when there are none.                                           *)
C12_NextAndPagesFromLinkTexts ==
    (PaginationDone /\ FirstPattern(soup) # 0) =>
        /\ outcome.value.has_next_page =
             (\E i \in 1..Len(ChosenContainer.links) :
                 TextSaysNext(ChosenContainer.links[i]))
        /\ outcome.value.total_pages =
             IF NumericLinkTexts(ChosenContainer) = {} THEN None
             ELSE Some(CHOOSE m \in NumericLinkTexts(ChosenContainer) :
                           \A n \in NumericLinkTexts(ChosenContainer) : n <= m)

-----------------------------------------------------------------------------
\* whether a word stands in an attribute of an element, in any case
AttrHolds(elem, attr, word) ==
    /\ attr \in DOMAIN elem.attrs
    /\ \E i \in 1..Len(elem.attrs[attr]) : Lower(elem.attrs[attr][i]) = word

\* whether an element is a pagination container by one of the five patterns
IsPaginationContainer(elem) ==
    \/ AttrHolds(elem, "class", "pagination")
    \/ AttrHolds(elem, "class", "pager")
    \/ AttrHolds(elem, "class", "page-nav")
    \/ ("role" \in DOMAIN elem.attrs /\ elem.attrs["role"] = <<"navigation">>)
    \/ AttrHolds(elem, "aria-label", "pagination")

(* C13: for a page with no element matching any of the five container      *)
(* patterns and no result-count text, detect_pagination_info returns       *)
(* has_next_page = False, total_results = None, current_page = None and    *)
(* total_pages = None.                                                     *)
C13_NoMarkersGivesDefaults ==
    (/\ op = "detect_pagination_info"
     /\ pc = "done"
     /\ \A i \in 1..Len(soup) : ~IsPaginationContainer(soup[i])
     /\ CountedResults(GetText(soup)) = {})
        => /\ outcome.status = "returned"
           /\ outcome.value.has_next_page = FALSE
           /\ outcome.value.total_results = None
           /\ outcome.value.current_page = None
           /\ outcome.value.total_pages = None

\* the text "No pagination here" and an element of class content that
\* holds the links Next and 3: neither is a pagination marker
C13_Witness ==
    /\ op = "detect_pagination_info"
    /\ pc = "done"
    /\ soup = <<PageUniverse[14], PageUniverse[7]>>
    /\ \A i \in 1..Len(soup) : ~IsPaginationContainer(soup[i])
    /\ CountedResults(GetText(soup)) = {}
    /\ outcome = Returned(DefaultPaginationInfo)

-----------------------------------------------------------------------------
(* Properties of MacaulayLookup. *)

\* a call of _fetch_media_data, directly or by search_species, is over
FetchOver == op \in {"_fetch_media_data", "search_species"} /\ pc = "done"

\* the HTTP requests the call made, and its calls of the parser
Gets == EventsOf(log, "get")

Parses == EventsOf(log, "parse")

(* C14: for every non-negative max_results, _fetch_media_data (and hence   *)
(* search_species) returns at most max_results records, and the list is    *)
(* the prefix of length min(max_results, n) of the parser's deduplicated   *)
(* n-record output, in the same order.                                     *)
C14_ResultIsPrefixOfParserOutput ==
    (FetchOver /\ outcome.status = "returned" /\ args.max_results >= 0) =>
        /\ Len(outcome.value) <= args.max_results
        /\ Parses # << >> =>
             LET parsed == Parses[1].result.value
                 k == IF args.max_results < Len(parsed)
                      THEN args.max_results ELSE Len(parsed)
             IN  /\ Len(outcome.value) = k
                 /\ \A i \in 1..k : outcome.value[i] = parsed[i]

\* the parser gave three records and max_results = 2 kept the first two
C14_Witness ==
    /\ FetchOver
    /\ outcome.status = "returned"
    /\ args.max_results = 2
    /\ Parses # << >>
    /\ Len(Parses[1].result.value) = 3
    /\ Len(outcome.value) = 2

\* whether search_species has no taxon code to search with: none is given
\* and the lookup of the name that is looked up returns None, or no name is
\* given either
NoTaxonCodeAvailable ==
    /\ ~TruthyStr(args.taxon_code)
    /\ \/ /\ TruthyName(args.common_name)
          /\ GetTaxonCodeByCommonName(taxonomy_data, Head(args.common_name))
               = Returned(None)
       \/ /\ ~TruthyName(args.common_name)
          /\ TruthyName(args.scientific_name)
          /\ GetTaxonCodeByScientificName(taxonomy_data,
                                          Head(args.scientific_name))
               = Returned(None)
       \/ /\ ~TruthyName(args.common_name)
          /\ ~TruthyName(args.scientific_name)

(* C16: search_species returns the empty list and issues no HTTP fetch     *)
(* whenever no taxon code is available: taxon_code is not given and the    *)
(* name lookup returns nothing, or none of taxon_code, common_name and     *)
(* scientific_name is given.                                               *)
C16_NoTaxonCodeNoFetch ==
    (op = "search_species" /\ pc = "done" /\ NoTaxonCodeAvailable) =>
        /\ outcome = Returned(<< >>)
        /\ Gets = << >>

\* the common name is unknown to the taxonomy; the scientific name given
\* with it would have been found but is not looked up
C16_Witness ==
    /\ op = "search_species"
    /\ pc = "done"
    /\ args.taxon_code = None
    /\ args.common_name = Some(<<"Dodo">>)
    /\ args.scientific_name = Some(<<"turdus">>)
    /\ NoTaxonCodeAvailable
    /\ outcome = Returned(<< >>)
    /\ log = << >>

(* C17 as stated: when search_species is called with month = m (not None), *)
(* both beginMonth and endMonth of the request parameters equal m,         *)
(* whatever begin_month and end_month were passed.                         *)
C17_MonthSetsBothParams ==
    (op = "search_species" /\ pc = "done" /\ Gets # << >>
     /\ args.month # None) =>
        LET params == Gets[1].arg
        IN  /\ "beginMonth" \in DOMAIN params
            /\ "endMonth" \in DOMAIN params
            /\ params["beginMonth"] = Head(args.month)
            /\ params["endMonth"] = Head(args.month)

(* C17, amended: when month = m is not None and m is not 0, beginMonth and *)
(* endMonth of the request parameters both equal m, whatever begin_month   *)
(* and end_month were passed; when m = 0 the request has neither key.      *)
C17_NonZeroMonthSetsBothParams ==
    (op = "search_species" /\ pc = "done" /\ Gets # << >>
     /\ args.month # None) =>
        LET params == Gets[1].arg
        IN  IF Head(args.month) # 0
            THEN /\ "beginMonth" \in DOMAIN params
                 /\ "endMonth" \in DOMAIN params
                 /\ params["beginMonth"] = Head(args.month)
                 /\ params["endMonth"] = Head(args.month)
            ELSE /\ "beginMonth" \notin DOMAIN params
                 /\ "endMonth" \notin DOMAIN params

\* month = 5 passed with begin_month = 3 and end_month = 9
C17_Witness ==
    /\ op = "search_species"
    /\ pc = "done"
    /\ args.month = Some(5)
    /\ args.begin_month = Some(3)
    /\ args.end_month = Some(9)
    /\ Gets # << >>
    /\ Gets[1].arg["beginMonth"] = 5
    /\ Gets[1].arg["endMonth"] = 5

(* C18: _fetch_media_data returns the empty list, and raises nothing, when *)
(* the HTTP request fails with a requests.RequestException (connection     *)
(* error, timeout, or the status error of raise_for_status); the parser is *)
(* not invoked then.                                                       *)
C18_FailedRequestGivesEmptyList ==
    (FetchOver /\ Gets # << >>
     /\ Gets[1].result.kind \in RequestExceptions) =>
        /\ outcome = Returned(<< >>)
        /\ Parses = << >>

\* raise_for_status raised for the only request of the call
C18_Witness ==
    /\ op = "_fetch_media_data"
    /\ pc = "done"
    /\ Len(Gets) = 1
    /\ Gets[1].result.kind = "HTTPError"
    /\ outcome = Returned(<< >>)
    /\ Parses = << >>

\* the loop of search_multiple_species ran to its end and the call returned
BatchReturned ==
    /\ op \in {"search_multiple_species", "search_from_ebird_hotspot"}
    /\ pc = "done"
    /\ outcome.status = "returned"
    /\ frame # EmptyDict

\* the searches and the sleeps of the call, in the order they happened
Searches == EventsOf(log, "search_species")

SearchesAndSleeps ==
    SelectSeq(log, LAMBDA e : e.type \in {"search_species", "sleep"})

\* the results of the first n searches, one after the other
RECURSIVE ResultsOfSearches(_)
ResultsOfSearches(n) ==
    IF n = 0 THEN << >>
    ELSE ResultsOfSearches(n - 1) \o Searches[n].result.value

(* C15: search_multiple_species calls search_species once per entry of     *)
(* species_list, in list order, sleeps once after each search (so a sleep  *)
(* stands between every two consecutive requests and there are as many     *)
(* sleeps as species), and returns the per-species results concatenated in *)
(* list order.                                                             *)
C15_OneSearchOneSleepPerSpecies ==
    BatchReturned =>
        /\ Len(Searches) = Len(frame.species_list)
        /\ \A i \in 1..Len(Searches) : Searches[i].arg = frame.species_list[i]
        /\ Len(SearchesAndSleeps) = 2 * Len(frame.species_list)
        /\ \A i \in 1..Len(SearchesAndSleeps) :
              SearchesAndSleeps[i].type =
                  IF i % 2 = 1 THEN "search_species" ELSE "sleep"
        /\ \A i, j \in 1..Len(log) :
              (i < j /\ log[i].type = "get" /\ log[j].type = "get")
                  => \E k \in (i + 1)..(j - 1) : log[k].type = "sleep"
        /\ outcome.value = ResultsOfSearches(Len(Searches))

\* two species were searched, the first of them with no request (its name
\* is unknown) and the second with records found, and two sleeps were made
C15_Witness ==
    /\ BatchReturned
    /\ op = "search_multiple_species"
    /\ Len(frame.species_list) = 2
    /\ Len(Searches) = 2
    /\ Searches[1].result.value = << >>
    /\ Len(Gets) = 1
    /\ Len(EventsOf(log, "sleep")) = 2
    /\ Len(outcome.value) > 0

(* C19: search_from_ebird_hotspot raises ValueError before any network     *)
(* request or species search when the instance was built without an eBird  *)
(* API key; with a key, an empty observation list gives the empty list     *)
(* with no species search.                                                 *)
C19_HotspotNeedsKeyAndObservations ==
    op = "search_from_ebird_hotspot" =>
        /\ ebird_api = None =>
             /\ log = << >>
             /\ pc # "loop"
             /\ pc = "done" => outcome = RaisedWith("ValueError")
        /\ (/\ ebird_api # None
            /\ pc # "call"
            /\ GetRecentObservationsByHotspot(
                   EventsOf(log, "ebird_get")[1].result) = << >>) =>
             /\ pc = "done"
             /\ outcome = Returned(<< >>)
             /\ Searches = << >>
             /\ Gets = << >>

\* a call with no key that raised, with nothing done
C19_Witness ==
    /\ op = "search_from_ebird_hotspot"
    /\ pc = "done"
    /\ ebird_api = None
    /\ outcome = RaisedWith("ValueError")
    /\ log = << >>

\* the column a lookup reads
LookupColumn ==
    IF op = "get_taxon_code_by_common_name" THEN "PRIMARY_COM_NAME"
    ELSE "SCI_NAME"

\* whether a is b, case ignored; whether a stands in b, case ignored
SameName(a, b) ==
    Len(a) = Len(b) /\ \A i \in 1..Len(a) : Lower(a[i]) = Lower(b[i])

IsSubstring(a, b) ==
    \E i \in 0..(Len(b) - Len(a)) : SameName(a, SubSeq(b, i + 1, i + Len(a)))

\* the code of the first row of the table that satisfies a condition
FirstRowCode(rows, Matches(_)) ==
    LET i == CHOOSE k \in 1..Len(rows) :
                 /\ Matches(rows[k])
                 /\ \A j \in 1..(k - 1) : ~Matches(rows[j])
    IN  rows[i].SPECIES_CODE

(* C20: get_taxon_code_by_common_name and get_taxon_code_by_scientific_name *)
(* resolve a name in two ordered stages: the first row whose name equals   *)
(* it, case ignored, gives the code; only when no row does, the first row  *)
(* whose name holds it as a substring, case ignored, gives the code; when  *)
(* neither stage matches the result is None.                               *)
C20_ExactThenSubstringLookup ==
    (op \in {"get_taxon_code_by_common_name",
             "get_taxon_code_by_scientific_name"} /\ pc = "done") =>
        LET rows == args.taxonomy_data
            Exact(row) == SameName(args.name, row[LookupColumn])
            Within(row) == IsSubstring(args.name, row[LookupColumn])
        IN  outcome =
              IF \E k \in 1..Len(rows) : Exact(rows[k])
              THEN Returned(Some(FirstRowCode(rows, Exact)))
              ELSE IF \E k \in 1..Len(rows) : Within(rows[k])
              THEN Returned(Some(FirstRowCode(rows, Within)))
              ELSE Returned(None)

-----------------------------------------------------------------------------
(* Properties of the order of the three strategies. *)

\* the ids of a list of records
IdsOf(records) == {records[i].catalog_id : i \in 1..Len(records)}

\* the candidates of each strategy on the page of the call
AnchorCandidates == LinkRecords(AssetLinks(soup), search_params)

ScriptCandidates == ScriptRecords(ScriptTags(soup), search_params)

ContainerCandidates ==
    ContainerRecords(Containers(soup), search_params, << >>).value

\* the position of an id in the list returned
PositionOf(id) ==
    CHOOSE k \in 1..Len(outcome.value) : outcome.value[k].catalog_id = id

\* the first record of a list that carries the id
FirstWith(records, id) ==
    records[CHOOSE i \in 1..Len(records) :
                /\ records[i].catalog_id = id
                /\ \A j \in 1..(i - 1) : records[j].catalog_id # id]

\* C23: when parse_catalog_page returns, the candidate list is the anchor
\* candidates, then the script candidates, then the container candidates,
\* each strategy having run; in the list returned every id of the anchor
\* strategy precedes every id found only by the script strategy, both
\* precede every id found only by the container strategy, and the record
\* kept for an id is the first one of the earliest strategy that found it.
C23_StrategiesInFixedOrder ==
    CatalogDone =>
        LET a == AnchorCandidates
            s == ScriptCandidates
            c == ContainerCandidates
            out == outcome.value
        IN  /\ media_records = a \o s \o c
            /\ IdsOf(out) = IdsOf(a) \cup IdsOf(s) \cup IdsOf(c)
            /\ \A x \in IdsOf(a), y \in IdsOf(s) \ IdsOf(a) :
                 PositionOf(x) < PositionOf(y)
            /\ \A y \in IdsOf(a) \cup IdsOf(s),
                  z \in IdsOf(c) \ (IdsOf(a) \cup IdsOf(s)) :
                 PositionOf(y) < PositionOf(z)
            /\ \A k \in 1..Len(out) :
                 out[k] = IF out[k].catalog_id \in IdsOf(a)
                          THEN FirstWith(a, out[k].catalog_id)
                          ELSE IF out[k].catalog_id \in IdsOf(s)
                          THEN FirstWith(s, out[k].catalog_id)
                          ELSE FirstWith(c, out[k].catalog_id)

\* a script stands first in the document and gives two ids; one of them is
\* also the id of an anchor and of a container further down: the list
\* returned starts with the anchor's record of that id, with its metadata,
\* and the id only the script gave follows
C23_Witness ==
    /\ CatalogDone
    /\ Len(soup) = 2
    /\ soup[1].tag = "script"
    /\ \E x \in IdsOf(AnchorCandidates) \cap IdsOf(ScriptCandidates)
                  \cap IdsOf(ContainerCandidates),
          y \in IdsOf(ScriptCandidates) \ IdsOf(AnchorCandidates) :
         /\ Len(outcome.value) = 2
         /\ outcome.value[1].catalog_id = x
         /\ outcome.value[1].common_name # ""
         /\ FirstWith(ScriptCandidates, x).common_name = ""
         /\ outcome.value[2].catalog_id = y

\* C24: every record parse_catalog_page returns has a catalog_id that is a
\* non-empty string of digits, whichever strategy produced it.
C24_CatalogIdsAreDigits ==
    CatalogDone =>
        \A k \in 1..Len(outcome.value) :
            IsDigitStr(outcome.value[k].catalog_id)

\* the value of an attribute of a container, None when it is missing or ''
AttributeSource(container, name) ==
    IF name \in DOMAIN container.attrs /\ Len(container.attrs[name]) > 0
    THEN Some(container.attrs[name]) ELSE None

\* the digits of the first anchor inside the container whose href holds
\* /asset/<digits>, None when there is none
AnchorSource(container) ==
    LET hits == {h \in 1..Len(container.links) :
                    CatalogIdMatches(container.links[h])}
    IN  IF hits = {} THEN None
        ELSE Some(CatalogIdGroup(container.links[KthSmallest(hits, 1)]))

\* the three sources of a container's id, in the order of the claim
IdSources(container) ==
    << AttributeSource(container, "data-asset-id"),
       AttributeSource(container, "data-catalog-id"),
       AnchorSource(container) >>

\* the first source that yields an id, None when none does
FirstSource(container) ==
    LET src == IdSources(container)
        hits == {k \in 1..Len(src) : src[k] # None}
    IN  IF hits = {} THEN None ELSE src[KthSmallest(hits, 1)]

\* C27: the container strategy gives one candidate for each container for
\* which a non-empty data-asset-id, a non-empty data-catalog-id or an
\* /asset/<digits> anchor inside it yields an id, in document order, with
\* the id of the first of these sources that yields one; a container for
\* which none yields an id gives no candidate.
C27_ContainerIdSourceOrder ==
    CatalogDone =>
        LET withId == SelectSeq(Containers(soup),
                                LAMBDA c : FirstSource(c) # None)
        IN  /\ Len(ContainerCandidates) = Len(withId)
            /\ \A i \in 1..Len(withId) :
                 ContainerCandidates[i].catalog_id
                     = Head(FirstSource(withId[i]))

\* a container with an empty data-asset-id, a data-catalog-id and an anchor
\* of another id gives the id of data-catalog-id; a container without any
\* source gives nothing
C27_Witness ==
    /\ CatalogDone
    /\ Len(Containers(soup)) = 2
    /\ Len(ContainerCandidates) = 1
    /\ \E i \in 1..2 :
         LET c == Containers(soup)[i]
         IN  /\ "data-asset-id" \in DOMAIN c.attrs
             /\ AttributeSource(c, "data-asset-id") = None
             /\ AttributeSource(c, "data-catalog-id") # None
             /\ AnchorSource(c) # None
             /\ AnchorSource(c) # AttributeSource(c, "data-catalog-id")
             /\ ContainerCandidates[1].catalog_id
                    = Head(AttributeSource(c, "data-catalog-id"))

-----------------------------------------------------------------------------
(* Properties of the anchor-link strategy. *)

\* the anchors of the page whose href holds /asset/<digits>: <<n, 0>> for an
\* anchor that is the node n itself, with no div, article or li above it,
\* <<n, h>> for the h-th anchor inside the div, article or li that node n is
AssetAnchors ==
    {<<n, 0>> : n \in {n \in 1..Len(soup) :
                          soup[n].tag = "a" /\ CatalogIdMatches(soup[n].href)}}
    \cup {p \in (1..Len(soup)) \X (1..3) :
            /\ soup[p[1]].tag \in ParentTags
            /\ p[2] <= Len(soup[p[1]].links)
            /\ CatalogIdMatches(soup[p[1]].links[p[2]])}

\* the href of such an anchor
HrefOf(p) == IF p[2] = 0 THEN soup[p[1]].href ELSE soup[p[1]].links[p[2]]

\* the anchors the extraction of whose metadata does not raise
SoundAnchors == {p \in AssetAnchors : p[2] = 0 \/ ~soup[p[1]].fault}

\* the k-th of a set of anchors in document order
KthAnchor(S, k) ==
    CHOOSE p \in S :
        Cardinality({q \in S : q[1] < p[1] \/ (q[1] = p[1] /\ q[2] < p[2])})
            = k - 1

\* the candidates of the anchor strategy are the records of the anchors of
\* S, in document order; the record of an anchor with nothing above it has
\* its id and url and empty metadata fields
AnchorCandidatesAre(S) ==
    /\ Len(AnchorCandidates) = Cardinality(S)
    /\ \A k \in 1..Len(AnchorCandidates) :
         LET p == KthAnchor(S, k)
             r == AnchorCandidates[k]
         IN  /\ r.catalog_id = CatalogIdGroup(HrefOf(p))
             /\ r.url = <<"https://", "macaulaylibrary.org", "/asset/">>
                            \o r.catalog_id
             /\ p[2] = 0 =>
                  \A f \in {"common_name", "scientific_name", "location",
                            "date", "recordist"} : r[f] = ""

\* C28 as stated: every anchor whose href holds /asset/<digits> yields a
\* candidate of the anchor strategy, and the record of an anchor without a
\* div, article or li above it has its id and url and empty metadata fields.
C28_EveryAssetAnchorYieldsCandidate ==
    CatalogDone => AnchorCandidatesAre(AssetAnchors)

\* C28, amended: every anchor whose href holds /asset/<digits> yields a
\* candidate of the anchor strategy, except an anchor inside a div, article
\* or li the extraction of whose metadata raises, which yields none; the
\* record of an anchor without a div, article or li above it has its id and
\* url and empty metadata fields.
C28_EverySoundAssetAnchorYieldsCandidate ==
    CatalogDone => AnchorCandidatesAre(SoundAnchors)

\* an anchor with nothing above it, whose record is the only candidate, and
\* an anchor inside an li whose metadata extraction raises
C28_Witness ==
    /\ CatalogDone
    /\ \E p \in AssetAnchors : p[2] = 0
    /\ \E p \in AssetAnchors : p[2] # 0 /\ soup[p[1]].fault
    /\ Len(AnchorCandidates) = 1
    /\ Len(outcome.value) = 1
    /\ outcome.value[1].common_name = ""

-----------------------------------------------------------------------------
(* Properties of the choice of the pagination container. *)

\* whether an element matches the k-th of the five container patterns:
\* class pagination, class pager, class page-nav, role=navigation,
\* aria-label pagination
PatternHolds(k, elem) ==
    CASE k = 1 -> AttrHolds(elem, "class", "pagination")
      [] k = 2 -> AttrHolds(elem, "class", "pager")
      [] k = 3 -> AttrHolds(elem, "class", "page-nav")
      [] k = 4 -> /\ "role" \in DOMAIN elem.attrs
                  /\ elem.attrs["role"] = <<"navigation">>
      [] k = 5 -> AttrHolds(elem, "aria-label", "pagination")

\* the position in the page of the one container the claim describes: of
\* the elements that match the earliest pattern any element matches, the
\* first in the document
OneContainer ==
    CHOOSE n \in 1..Len(soup) :
        \E k \in 1..5 :
            /\ PatternHolds(k, soup[n])
            /\ \A m \in 1..Len(soup) :
                 /\ \A j \in 1..(k - 1) : ~PatternHolds(j, soup[m])
                 /\ (m < n => ~PatternHolds(k, soup[m]))

\* C25: when some element matches one of the five patterns,
\* has_next_page and total_pages are those of one container alone, the
\* first element that matches the earliest pattern with a match: next
\* indicators and page links of every other element are ignored.
C25_OnePaginationContainer ==
    (PaginationDone /\ \E n \in 1..Len(soup) : IsPaginationContainer(soup[n]))
        => LET elem == soup[OneContainer]
               pages == {IntOf(Strip(PageLinks(elem)[i].text)) :
                            i \in 1..Len(PageLinks(elem))}
           IN  /\ outcome.value.has_next_page = (NextIndicators(elem) # << >>)
               /\ outcome.value.total_pages =
                    IF pages = {} THEN None
                    ELSE Some(CHOOSE m \in pages : \A n \in pages : n <= m)

\* a role=navigation element with page links stands before an element of
\* class pagination without any link: the latter is the container, and
\* the page links of the former are ignored
C25_Witness ==
    /\ PaginationDone
    /\ Len(soup) = 2
    /\ PatternHolds(4, soup[1])
    /\ PageLinks(soup[1]) # << >>
    /\ PatternHolds(1, soup[2])
    /\ soup[2].links = << >>
    /\ outcome.value.has_next_page = FALSE
    /\ outcome.value.total_pages = None

-----------------------------------------------------------------------------
(* Properties of the result-count patterns. *)

\* the result-count patterns that match somewhere in a text
MatchingPatterns(s) == {k \in 1..3 : Search(k, s) # None}

\* C26: total_results is decided by the first of the three patterns that
\* matches the page text: it is the second group of that pattern's match,
\* and None when that group took no part in the match, whatever a later
\* pattern would match; it is None when no pattern matches.
C26_FirstMatchingPatternDecides ==
    PaginationDone =>
        LET s == GetText(soup)
            k == KthSmallest(MatchingPatterns(s), 1)
            groups == Head(Search(k, s))
        IN  outcome.value.total_results =
                IF MatchingPatterns(s) = {} THEN None
                ELSE IF groups[2] = << >> THEN None
                ELSE Some(IntOf(groups[2]))

\* "300 results found" followed by "Showing 1-50 of 342 results": the first
\* pattern matches the former without a total, the third would match the
\* latter with the total 342, and total_results is None
C26_Witness ==
    /\ PaginationDone
    /\ LET s == GetText(soup)
       IN  /\ Search(1, s) = Some(<<(<<"3", "0", "0">>), << >>>>)
           /\ Search(3, s) # None
           /\ Head(Search(3, s))[3] = <<"3", "4", "2">>
    /\ outcome.value.total_results = None

\* C29: every page text that the second or the third result-count pattern
\* matches is matched by the first, so total_results is always decided by
\* the first pattern: it is the second group of its leftmost match, None
\* when that group took no part or the first pattern does not match.
C29_FirstPatternAlwaysDecides ==
    PaginationDone =>
        LET s == GetText(soup)
        IN  /\ (Search(2, s) # None \/ Search(3, s) # None)
                   => Search(1, s) # None
            /\ outcome.value.total_results =
                 IF Search(1, s) = None \/ Head(Search(1, s))[2] = << >>
                 THEN None
                 ELSE Some(IntOf(Head(Search(1, s))[2]))

\* "1-1of1results": a text the third pattern matches from its first token,
\* which the first pattern matches only further right, and the total is the
\* one the first pattern captured
C29_Witness ==
    /\ PaginationDone
    /\ LET s == GetText(soup)
       IN  /\ RangeAt(s, 1) # None
           /\ CountAt(s, 1) = None
           /\ Search(1, s) # None
           /\ outcome.value.total_results = Some(IntOf(Head(Search(1, s))[2]))

-----------------------------------------------------------------------------
(* Properties of the choice of the name in search_species. *)

\* what each lookup gives for the names of the call, None for a name that
\* is not given
CommonNameCode ==
    IF args.common_name = None THEN Returned(None)
    ELSE GetTaxonCodeByCommonName(taxonomy_data, Head(args.common_name))

ScientificNameCode ==
    IF args.scientific_name = None THEN Returned(None)
    ELSE GetTaxonCodeByScientificName(taxonomy_data,
                                      Head(args.scientific_name))

\* the code the claim's precedence gives: the taxon_code given; else what
\* the common-name lookup gives when a common name is given; else what the
\* scientific-name lookup gives (given: neither None nor empty)
CodeByPrecedence ==
    IF TruthyStr(args.taxon_code) THEN Returned(args.taxon_code)
    ELSE IF TruthyName(args.common_name) THEN CommonNameCode
    ELSE IF TruthyName(args.scientific_name) THEN ScientificNameCode
    ELSE Returned(None)

\* C30: the taxon code search_species works with is chosen by fixed
\* precedence: the taxon_code given, without any lookup; else the result of
\* the common-name lookup alone when a common name is given, also when it
\* finds nothing (the search then returns [] without a request); else the
\* result of the scientific-name lookup.  The one request made carries that
\* code as taxonCode.
C30_NameResolutionPrecedence ==
    (op = "search_species" /\ pc = "done") =>
        IF CodeByPrecedence.status = "raised"
        THEN outcome.status = "raised" /\ Gets = << >>
        ELSE IF CodeByPrecedence.value = None
        THEN outcome = Returned(<< >>) /\ Gets = << >>
        ELSE /\ Len(Gets) = 1
             /\ Gets[1].arg.taxonCode = Head(CodeByPrecedence.value)

\* both names are given and the two lookups give different codes: the
\* request carries the code of the common name
C30_Witness ==
    /\ op = "search_species"
    /\ pc = "done"
    /\ args.taxon_code = None
    /\ args.common_name # None
    /\ args.scientific_name # None
    /\ CommonNameCode.status = "returned"
    /\ ScientificNameCode.status = "returned"
    /\ CommonNameCode.value # None
    /\ ScientificNameCode.value # None
    /\ CommonNameCode # ScientificNameCode
    /\ Len(Gets) = 1
    /\ Gets[1].arg.taxonCode = Head(CommonNameCode.value)

-----------------------------------------------------------------------------
(* Properties of calls made one after the other. *)

\* the calls that are over, the one just finished included
CallsMade ==
    log \o (IF pc = "done"
            THEN <<Event(op, [soup |-> soup, search_params |-> search_params],
                         outcome)>>
            ELSE << >>)

\* two calls of one operation with equal arguments have equal outcomes,
\* whatever was called between them
SameCallSameOutcome ==
    \A i, j \in 1..Len(CallsMade) :
        (/\ CallsMade[i].type = CallsMade[j].type
         /\ CallsMade[i].arg = CallsMade[j].arg)
            => CallsMade[i].result = CallsMade[j].result

\* a call leaves the page and the mapping it was handed as they were, and
\* adds nothing to what is kept between calls
CallLeavesArgumentsAlone ==
    pc = "call" =>
        /\ soup' = soup
        /\ search_params' = search_params
        /\ log' = log
        /\ frame' = frame

-----------------------------------------------------------------------------
(* Properties of the constructor of eBirdTaxonomy. *)

\* whether some step of the path taken failed: the read of the existing
\* file; or the request, the write or the read of what was written
LoadFailed ==
    IF args.exists THEN args.on_disk.status = "raised"
    ELSE \/ args.response.kind # "ok"
         \/ ~args.writable
         \/ args.downloaded.status = "raised"

\* C21: the constructor of eBirdTaxonomy returns, with taxonomy_data not
\* None: the table read from the local file when the file exists, and then
\* nothing is requested; else the table downloaded, after one request; and
\* the fallback table of ten species whenever a step of the path taken
\* failed.
C21_TaxonomyDataNeverNone ==
    (op = "eBirdTaxonomy" /\ pc = "done") =>
        /\ outcome.status = "returned"
        /\ frame.taxonomy_data # None
        /\ Len(EventsOf(log, "get")) = IF args.exists THEN 0 ELSE 1
        /\ Len(FallbackTaxonomy) = 10
        /\ frame.taxonomy_data =
             IF LoadFailed THEN Some(FallbackTaxonomy)
             ELSE IF args.exists THEN Some(args.on_disk.value)
             ELSE Some(args.downloaded.value)

\* no file; the download answers, but the file cannot be written: the
\* fallback table
C21_Witness ==
    /\ op = "eBirdTaxonomy"
    /\ pc = "done"
    /\ ~args.exists
    /\ args.response.kind = "ok"
    /\ ~args.writable
    /\ EventsOf(log, "read_csv") = << >>
    /\ frame.taxonomy_data = Some(FallbackTaxonomy)

=============================================================================
